---- MODULE Spec2Model ----
(***************************************************************************)
(* Model of pyarrowfs_adlgen2/core.py:                                     *)
(*   DatalakeGen2File   - buffered stream over one remote file             *)
(*   FilesystemHandler  - operations inside one file system (namespace)    *)
(*   AccountHandler     - the router over all file systems of an account   *)
(* and of the remote storage primitives these classes call.                *)
(*                                                                         *)
(* A path is a sequence of one-character strings, so that lstrip, rstrip,  *)
(* split, join and os.path.dirname are computed as the code computes them. *)
(* File content is a sequence of small integers (bytes).                   *)
(***************************************************************************)
EXTENDS Integers, Sequences, FiniteSets, TLC

VARIABLES
    f,          \* the DatalakeGen2File object under test (FileSpec)
    remote,     \* the remote file behind f.file_client
    res,        \* the last call on f: op, arguments, error, return, remote calls
    written,    \* ghost: the data write() took since f was constructed
    failed,     \* ghost: some remote call failed since f was constructed
    fileSystems,            \* the account: names of the existing file systems
    store,                  \* the account: <<fs, path>> -> [is_directory, content]
    file_system_handlers,   \* AccountHandler.file_system_handlers
    result,                 \* outcome of the last AccountHandler call
    threads                 \* the threads that share one AccountHandler (RaceSpec)

fileVars == <<f, remote, res, written, failed>>
acctVars == <<fileSystems, store, file_system_handlers, result, threads>>
vars == <<f, remote, res, written, failed,
          fileSystems, store, file_system_handlers, result, threads>>

----------------------------------------------------------------------------
(* Bounds *)

BlockSize == 2      \* block_size given to the file (flush threshold)
MaxData == 2        \* longest data of one write()
MaxTotal == 3       \* most bytes written through one file object
MaxRemote == 4      \* longest committed + staged remote content explored
MaxLoc == 2         \* largest cursor explored by seek

None == -1          \* self.offset = None

\* K applied to the value o of the step before it: o is computed once
Then(o, K(_)) == CHOOSE r \in {K(x) : x \in {o}} : TRUE

Min(a, b) == IF a < b THEN a ELSE b

\* The k bytes a client writes after having written n: byte i of the data
\* written through one object is i, so that a lost, repeated or misplaced
\* byte shows in the content.
NextData(n, k) == [i \in 1..k |-> n + i]

----------------------------------------------------------------------------
(* The remote file: the part of the storage service behind a                *)
(* DataLakeFileClient.  Appended bytes are staged and become content only   *)
(* when flush_data commits them; both calls name the position they apply to.*)

NoCall == <<>>

Call(name, data, offset, ok) ==
    [call |-> name, data |-> data, offset |-> offset, ok |-> ok]

RemoteLen(r) == Len(r.content) + Len(r.staged)

\* file_client.create_file(): a new empty file replaces whatever was there
create_file(r) == [exists |-> TRUE, content |-> <<>>, staged |-> <<>>]

\* file_client.get_file_properties().size; defined when the file exists
file_size(r) == Len(r.content)

\* file_client.append_data(data, offset, length) is accepted at the end of
\* what the service holds for the file
append_ok(r, offset) == r.exists /\ offset = RemoteLen(r)

append_data(r, data, offset) == [r EXCEPT !.staged = r.staged \o data]

\* file_client.flush_data(offset) commits everything staged up to offset
flush_ok(r, offset) == r.exists /\ offset = RemoteLen(r)

flush_data(r, offset) ==
    [r EXCEPT !.content = r.content \o r.staged, !.staged = <<>>]

\* file_client.download_file(loc, length).readall()
download_ok(r, loc, length) ==
    r.exists /\ length > 0 /\ loc >= 0 /\ loc < Len(r.content)

download_file(r, loc, length) ==
    SubSeq(r.content, loc + 1, Min(loc + length, Len(r.content)))

----------------------------------------------------------------------------
(* DatalakeGen2File *)

Modes == {"rb", "wb", "ab"}

\* The remote calls one operation can make; `fail` names the one that raises
\* a transport error when the operation reaches it ("none": no failure).
FailPoints == {"none", "create_file", "get_file_properties",
               "append_data", "flush_data", "download_file"}

ValueErrors == {"IOOnClosed", "NotInWriteMode", "NotInReadMode",
                "SeekNotInReadMode", "InvalidWhence", "InvalidSeek"}

\* DatalakeGen2File.__init__ up to the eager create
NewFile(mode) ==
    [mode |-> mode, block_size |-> BlockSize, loc |-> 0,
     buffer |-> <<>>, offset |-> None, closed |-> FALSE]

\* Outcome of one operation: the object, the remote file, the error raised
\* ("none" if it returned), the returned number / bytes, the remote calls.
Out(file, r, err, ret, data, calls) ==
    [f |-> file, r |-> r, err |-> err, ret |-> ret, data |-> data, calls |-> calls]


\* a flush that asks for the size of the remote file every time
NeedsPropertiesAlways(file) == file.mode = "ab"

\* flush, lines 187-191: the offset of the first append is resolved lazily
NeedsProperties(file) == file.offset = None /\ file.mode = "ab"

\* an offset that is resolved to 0 in every mode
ResolveOffsetZero(file, r) ==
    IF file.offset # None THEN file.offset ELSE 0

ResolveOffset(file, r) ==
    IF file.offset # None THEN file.offset
    ELSE IF file.mode = "ab" THEN file_size(r) ELSE 0

\* flush, line 194: self.offset += self.buffer.tell()
AdvanceOffset(file) == [file EXCEPT !.offset = @ + Len(file.buffer)]

\* a flush that leaves the flushed bytes in the buffer
ClearBufferKept(file) == file

\* flush, line 196: self.buffer = io.BytesIO()
ClearBuffer(file) == [file EXCEPT !.buffer = <<>>]

\* flush, lines 182-185: the closed check comes before the mode check
FlushRaisesClosed(file) == file.closed

Flush(file, r, fail) ==
    IF FlushRaisesClosed(file) THEN Out(file, r, "IOOnClosed", None, <<>>, NoCall)
    ELSE IF file.mode \notin {"wb", "ab"} THEN Out(file, r, "none", None, <<>>, NoCall)
    ELSE
      LET propsOk == r.exists /\ fail # "get_file_properties"
          c1 == IF NeedsProperties(file)
                THEN <<Call("get_file_properties", <<>>, None, propsOk)>>
                ELSE NoCall
      IN IF NeedsProperties(file) /\ ~propsOk
         THEN Out(file, r, "TransportError", None, <<>>, c1)
         ELSE
           LET f1 == [file EXCEPT !.offset = ResolveOffset(file, r)]
               appOk == fail # "append_data" /\ append_ok(r, f1.offset)
               c2 == Append(c1, Call("append_data", f1.buffer, f1.offset, appOk))
           IN IF ~appOk
              THEN Out(f1, r, "TransportError", None, <<>>, c2)
              ELSE
                LET r2 == append_data(r, f1.buffer, f1.offset)
                    f2 == AdvanceOffset(f1)
                    flOk == fail # "flush_data" /\ flush_ok(r2, f2.offset)
                    c3 == Append(c2, Call("flush_data", <<>>, f2.offset, flOk))
                IN IF ~flOk
                   THEN Out(f2, r2, "TransportError", None, <<>>, c3)
                   ELSE Out(ClearBuffer(f2), flush_data(r2, f2.offset),
                            "none", None, <<>>, c3)

\* a write that never flushes
BlockFullNever(file) == FALSE

\* write, line 174: the buffer is flushed once it holds block_size bytes
BlockFull(file) == Len(file.buffer) >= file.block_size

Write(file, r, data, fail) ==
    IF file.mode \notin {"wb", "ab"}
    THEN Out(file, r, "NotInWriteMode", None, <<>>, NoCall)
    ELSE IF file.closed THEN Out(file, r, "IOOnClosed", None, <<>>, NoCall)
    ELSE
      LET f1 == [file EXCEPT !.buffer = @ \o data, !.loc = @ + Len(data)]
      IN IF BlockFull(f1)
         THEN LET o == Flush(f1, r, fail)
              IN Out(o.f, o.r, o.err,
                     IF o.err = "none" THEN Len(data) ELSE None, <<>>, o.calls)
         ELSE Out(f1, r, "none", Len(data), <<>>, NoCall)

\* a close() that flushes again on a closed file
CloseSkipsNever(file) == FALSE

\* io.IOBase.close, inherited: nothing when already closed; otherwise flush(),
\* and the object is marked closed whether or not flush() raised
CloseSkips(file) == file.closed

Close(file, r, fail) ==
    IF CloseSkips(file) THEN Out(file, r, "none", None, <<>>, NoCall)
    ELSE LET o == Flush(file, r, fail)
         IN Out([o.f EXCEPT !.closed = TRUE], o.r, o.err, None, <<>>, o.calls)

Read(file, r, length, fail) ==
    IF file.mode # "rb" THEN Out(file, r, "NotInReadMode", None, <<>>, NoCall)
    ELSE IF file.closed THEN Out(file, r, "IOOnClosed", None, <<>>, NoCall)
    ELSE
      LET propsOk == r.exists /\ fail # "get_file_properties"
          c1 == IF length < 0
                THEN <<Call("get_file_properties", <<>>, None, propsOk)>>
                ELSE NoCall
      IN IF length < 0 /\ ~propsOk
         THEN Out(file, r, "TransportError", None, <<>>, c1)
         ELSE
           LET n == IF length < 0 THEN file_size(r) - file.loc ELSE length
               dlOk == fail # "download_file" /\ download_ok(r, file.loc, n)
               c2 == Append(c1, Call("download_file", <<>>, file.loc, dlOk))
           IN IF n = 0 THEN Out(file, r, "none", None, <<>>, c1)
              ELSE IF ~dlOk THEN Out(file, r, "TransportError", None, <<>>, c2)
              ELSE Out(file, r, "none", None, download_file(r, file.loc, n), c2)

\* a seek without the test of line 162
SeekUnchecked(file, r, loc, whence, fail) ==
    IF file.mode # "rb" THEN Out(file, r, "SeekNotInReadMode", None, <<>>, NoCall)
    ELSE IF ~(0 <= whence /\ whence <= 2)
    THEN Out(file, r, "InvalidWhence", None, <<>>, NoCall)
    ELSE
      LET propsOk == r.exists /\ fail # "get_file_properties"
          c1 == <<Call("get_file_properties", <<>>, None, propsOk)>>
      IN IF ~propsOk THEN Out(file, r, "TransportError", None, <<>>, c1)
         ELSE
           LET new_loc == CASE whence = 0 -> loc
                            [] whence = 1 -> file.loc + loc
                            [] whence = 2 -> file_size(r) + loc
           IN Out([file EXCEPT !.loc = new_loc], r, "none", new_loc, <<>>, c1)

\* seek: the list [loc, self.loc + loc, size + loc] is built before it is
\* indexed, so get_file_properties() is called whatever whence is
Seek(file, r, loc, whence, fail) ==
    IF file.mode # "rb" THEN Out(file, r, "SeekNotInReadMode", None, <<>>, NoCall)
    ELSE IF ~(0 <= whence /\ whence <= 2)
    THEN Out(file, r, "InvalidWhence", None, <<>>, NoCall)
    ELSE
      LET propsOk == r.exists /\ fail # "get_file_properties"
          c1 == <<Call("get_file_properties", <<>>, None, propsOk)>>
      IN IF ~propsOk THEN Out(file, r, "TransportError", None, <<>>, c1)
         ELSE
           LET new_loc == CASE whence = 0 -> loc
                            [] whence = 1 -> file.loc + loc
                            [] whence = 2 -> file_size(r) + loc
           IN IF new_loc < 0 THEN Out(file, r, "InvalidSeek", None, <<>>, c1)
              ELSE Out([file EXCEPT !.loc = new_loc], r, "none", new_loc, <<>>, c1)

Tell(file, r) == Out(file, r, "none", file.loc, <<>>, NoCall)

----------------------------------------------------------------------------
(* The calls a client makes on one DatalakeGen2File (FileSpec) *)

InitRemotes ==
    {[exists |-> FALSE, content |-> <<>>, staged |-> <<>>]} \cup
    {[exists |-> TRUE, content |-> c, staged |-> <<>>] : c \in {<<>>, <<0>>}}

\* DatalakeGen2File(file_client, mode): 'wb' creates the file eagerly
Construct(mode, r) == IF mode = "wb" THEN create_file(r) ELSE r

SomeCallFailed(calls) == \E i \in 1..Len(calls) : ~calls[i].ok

NoArgs == [data |-> <<>>, n |-> 0, whence |-> 0]

\* The injected failure is one the operation ran into
FailReached(o, fail) ==
    \/ fail = "none"
    \/ /\ o.calls # NoCall
       /\ o.calls[Len(o.calls)].call = fail
       /\ ~o.calls[Len(o.calls)].ok

\* no call on f is in progress: the last one has returned to the client
IdleRes == [op |-> "idle", args |-> NoArgs, err |-> "none", ret |-> None,
            data |-> <<>>, calls |-> NoCall]

\* The state when a call with outcome o on the object f ends
Applied(op, args, o) ==
    /\ f' = o.f
    /\ remote' = o.r
    /\ res' = [op |-> op, args |-> args, err |-> o.err, ret |-> o.ret,
               data |-> o.data, calls |-> o.calls]
    /\ failed' = (failed \/ SomeCallFailed(o.calls))
    /\ UNCHANGED acctVars

DoOpen(mode) ==
    /\ res = IdleRes
    /\ f.closed
    /\ f' = NewFile(mode)
    /\ remote' = Construct(mode, remote)
    /\ res' = [op |-> "open", args |-> NoArgs, err |-> "none", ret |-> None,
               data |-> <<>>,
               calls |-> IF mode = "wb"
                         THEN <<Call("create_file", <<>>, None, TRUE)>> ELSE NoCall]
    /\ written' = <<>>
    /\ failed' = FALSE
    /\ UNCHANGED acctVars

WriteFails == {"none", "get_file_properties", "append_data", "flush_data"}
ReadFails == {"none", "get_file_properties", "download_file"}
SeekFails == {"none", "get_file_properties"}
ReadLengths == {-1, 0, 1, MaxLoc}
SeekLocs == {-1, 1, MaxLoc}

DoWrite(k, fail) ==
    LET data == NextData(Len(written), k)
        o == Write(f, remote, data, fail)
    IN /\ res = IdleRes
       /\ Len(written) + k <= MaxTotal
       /\ FailReached(o, fail)
       /\ RemoteLen(o.r) <= MaxRemote
       /\ Applied("write", [NoArgs EXCEPT !.data = data], o)
       /\ written' = IF Len(o.f.buffer) # Len(f.buffer) \/ o.calls # NoCall
                     THEN written \o data ELSE written

DoFlush(fail) ==
    LET o == Flush(f, remote, fail)
    IN /\ res = IdleRes
       /\ FailReached(o, fail)
       /\ RemoteLen(o.r) <= MaxRemote
       /\ Applied("flush", NoArgs, o)
       /\ UNCHANGED written

DoClose(fail) ==
    LET o == Close(f, remote, fail)
    IN /\ res = IdleRes
       /\ FailReached(o, fail)
       /\ RemoteLen(o.r) <= MaxRemote
       /\ Applied("close", NoArgs, o)
       /\ UNCHANGED written

DoRead(length, fail) ==
    LET o == Read(f, remote, length, fail)
    IN /\ res = IdleRes
       /\ FailReached(o, fail)
       /\ Applied("read", [NoArgs EXCEPT !.n = length], o)
       /\ UNCHANGED written

DoSeek(loc, whence, fail) ==
    LET o == Seek(f, remote, loc, whence, fail)
    IN /\ res = IdleRes
       /\ FailReached(o, fail)
       /\ o.f.loc <= MaxLoc
       /\ Applied("seek", [NoArgs EXCEPT !.n = loc, !.whence = whence], o)
       /\ UNCHANGED written

DoTell ==
    /\ res = IdleRes
    /\ Applied("tell", NoArgs, Tell(f, remote))
    /\ UNCHANGED written

\* a file object constructed in `mode` on the remote file r
FileConstructed(mode, r) ==
    /\ f = NewFile(mode)
    /\ remote = Construct(mode, r)
    /\ res = IdleRes
    /\ written = <<>>
    /\ failed = FALSE

FileInit == \E mode \in Modes, r \in InitRemotes : FileConstructed(mode, r)

\* the call returns (or raises) to the client
FileReturn ==
    /\ res # IdleRes
    /\ res' = IdleRes
    /\ UNCHANGED <<f, remote, written, failed>>
    /\ UNCHANGED acctVars

FileNext ==
    \/ \E mode \in Modes : DoOpen(mode)
    \/ \E k \in 0..MaxData, fail \in WriteFails : DoWrite(k, fail)
    \/ \E fail \in WriteFails : DoFlush(fail)
    \/ \E fail \in WriteFails : DoClose(fail)
    \/ \E length \in ReadLengths, fail \in ReadFails : DoRead(length, fail)
    \/ \E loc \in SeekLocs, whence \in 0..3, fail \in SeekFails :
          DoSeek(loc, whence, fail)
    \/ DoTell
    \/ FileReturn

----------------------------------------------------------------------------
(* Paths *)

Sep == "/"

\* the characters paths are made of, in the order the service sorts them
Alphabet == <<"/", "m", "n", "x", "y">>

CharCode(c) == CHOOSE i \in 1..Len(Alphabet) : Alphabet[i] = c

RECURSIVE lstrip(_)
lstrip(p_) ==
    Then(p_, LAMBDA p :
      IF p # <<>> /\ Head(p) = Sep THEN lstrip(Tail(p)) ELSE p)

RECURSIVE rstrip(_)
rstrip(p_) ==
    Then(p_, LAMBDA p :
      IF p # <<>> /\ p[Len(p)] = Sep
      THEN rstrip(SubSeq(p, 1, Len(p) - 1)) ELSE p)

\* path.lstrip('/').rstrip('/')
normalize_path(path) == rstrip(lstrip(path))

HasSep(p) == \E i \in 1..Len(p) : p[i] = Sep

\* str.split('/'): the pieces between separators, empty pieces included
RECURSIVE Split(_)
Split(p_) ==
    Then(p_, LAMBDA p :
      IF ~HasSep(p) THEN <<p>>
      ELSE LET i == CHOOSE k \in 1..Len(p) :
                       p[k] = Sep /\ \A j \in 1..(k - 1) : p[j] # Sep
           IN <<SubSeq(p, 1, i - 1)>> \o Split(SubSeq(p, i + 1, Len(p))))

\* '/'.join(pieces)
RECURSIVE Join(_)
Join(pieces_) ==
    Then(pieces_, LAMBDA pieces :
      IF pieces = <<>> THEN <<>>
      ELSE IF Len(pieces) = 1 THEN pieces[1]
      ELSE pieces[1] \o <<Sep>> \o Join(Tail(pieces)))

AllSeps(p) == \A i \in 1..Len(p) : p[i] = Sep

\* os.path.dirname (posixpath)
dirname(p_) ==
    Then(p_, LAMBDA p :
      LET idx == {k \in 1..Len(p) : p[k] = Sep}
          i == IF idx = {} THEN 0 ELSE CHOOSE k \in idx : \A j \in idx : j <= k
      IN Then(SubSeq(p, 1, i), LAMBDA head :
           IF head # <<>> /\ ~AllSeps(head) THEN rstrip(head) ELSE head))

\* lexicographic order on paths
RECURSIVE PathLeq(_, _)
PathLeq(a_, b_) ==
    Then(<<a_, b_>>, LAMBDA ab :
      LET a == ab[1]
          b == ab[2]
      IN IF a = <<>> THEN TRUE
         ELSE IF b = <<>> THEN FALSE
         ELSE IF Head(a) # Head(b) THEN CharCode(Head(a)) < CharCode(Head(b))
         ELSE PathLeq(Tail(a), Tail(b)))

RECURSIVE SortPaths(_)
SortPaths(S_) ==
    Then(S_, LAMBDA S :
      IF S = {} THEN <<>>
      ELSE Then(CHOOSE x \in S : \A y \in S : PathLeq(x, y), LAMBDA m :
             <<m>> \o SortPaths(S \ {m})))

\* q lies below directory d (d = <<>> is the root of the file system)
IsUnder(q, d) ==
    IF d = <<>> THEN q # <<>>
    ELSE Len(q) > Len(d) + 1 /\ SubSeq(q, 1, Len(d) + 1) = d \o <<Sep>>

Ancestors(q) == {SubSeq(q, 1, i - 1) : i \in {k \in 1..Len(q) : q[k] = Sep}}

Depth(q) == Cardinality({k \in 1..Len(q) : q[k] = Sep}) + 1

----------------------------------------------------------------------------
(* The storage account: the file systems and the paths in them, and the     *)
(* service calls that core.py makes on them.  A = [fss, st]: fss the names  *)
(* of the file systems, st the entries, keyed <<file system, path>>.        *)

EmptyStore == [k \in {} |-> 0]

Entry(is_directory, content) == [is_directory |-> is_directory, content |-> content]

Exists(A, fs, q) == <<fs, q>> \in DOMAIN A.st

IsDirAt(A, fs, q) == q = <<>> \/ (Exists(A, fs, q) /\ A.st[<<fs, q>>].is_directory)

IsFileAt(A, fs, q) == Exists(A, fs, q) /\ ~A.st[<<fs, q>>].is_directory

PathsOf(A, fs) == {k[2] : k \in {e \in DOMAIN A.st : e[1] = fs}}

PathProperties(A, fs, q) ==
    [name |-> q, is_directory |-> A.st[<<fs, q>>].is_directory,
     content_length |-> Len(A.st[<<fs, q>>].content)]

\* a remote call as it is issued: which primitive, on which file system,
\* with which path (and, for a rename, which new name)
ACall(name, fs, q, dest) == [call |-> name, fs |-> fs, path |-> q, dest |-> dest]

\* FileSystemClient.get_paths(path, recursive): 404 when the file system or
\* the directory is missing, else the entries below it, sorted by name
get_paths_status(A, fs, q) ==
    IF fs \in A.fss /\ IsDirAt(A, fs, q) THEN "none" ELSE "Storage404"

get_paths(A, fs, q_, recursive) ==
    Then(q_, LAMBDA q :
      Then(SortPaths({e \in PathsOf(A, fs) :
                         IsUnder(e, q) /\ (recursive \/ dirname(e) = q)}),
           LAMBDA names :
             [i \in 1..Len(names) |-> PathProperties(A, fs, names[i])]))

\* FileSystemClient.create_directory(path): the service creates the missing
\* intermediate directories; it refuses when a file is in the way
create_directory_ok(A, fs, q) ==
    /\ fs \in A.fss
    /\ q # <<>>
    /\ \A a \in Ancestors(q) \cup {q} : ~IsFileAt(A, fs, a)

WithDirs(A, fs, dirs) ==
    Then({<<fs, d>> : d \in {e \in dirs : e # <<>> /\ ~Exists(A, fs, e)}},
         LAMBDA new :
           [A EXCEPT !.st = [k \in DOMAIN A.st \cup new |->
                               IF k \in DOMAIN A.st THEN A.st[k]
                               ELSE Entry(TRUE, <<>>)]])

create_directory(A, fs, q) == WithDirs(A, fs, Ancestors(q) \cup {q})

Without(A, keys) == [A EXCEPT !.st = [k \in DOMAIN A.st \ keys |-> A.st[k]]]

\* FileSystemClient.delete_directory(path): the directory and all below it
delete_directory_ok(A, fs, q) == fs \in A.fss /\ q # <<>> /\ IsDirAt(A, fs, q)

delete_directory(A, fs, q) ==
    Without(A, {<<fs, e>> : e \in {d \in PathsOf(A, fs) : d = q \/ IsUnder(d, q)}})

\* DataLakeFileClient.delete_file()
delete_file_ok(A, fs, q) == fs \in A.fss /\ IsFileAt(A, fs, q)

delete_file_(A, fs, q) == Without(A, {<<fs, q>>})

\* DataLakeFileClient.create_file(): an empty file, replacing a file that is
\* there; missing parent directories are created
create_file_ok(A, fs, q) ==
    /\ fs \in A.fss
    /\ q # <<>>
    /\ ~IsDirAt(A, fs, q)
    /\ \A a \in Ancestors(q) : ~IsFileAt(A, fs, a)

create_remote_file(A, fs, q) ==
    Then(WithDirs(A, fs, Ancestors(q)), LAMBDA B :
      [B EXCEPT !.st = [k \in DOMAIN B.st \cup {<<fs, q>>} |->
                           IF k = <<fs, q>> THEN Entry(FALSE, <<>>) ELSE B.st[k]]])

\* The new name given to rename_file / rename_directory is
\* "<file system>/<path>"; the service strips separators at both ends.
NewNameFs(new_name) == Split(normalize_path(new_name))[1]

NewNamePath(new_name) == Join(Tail(Split(normalize_path(new_name))))

\* DataLakeFileClient.rename_file(new_name): the destination's parent must
\* exist; a file at the destination is replaced
rename_file_ok(A, fs, q, new_name) ==
    Then(<<NewNameFs(new_name), NewNamePath(new_name)>>, LAMBDA d :
      LET dfs == d[1]
          dq == d[2]
      IN /\ fs \in A.fss /\ IsFileAt(A, fs, q)
         /\ dfs \in A.fss /\ dq # <<>>
         /\ IsDirAt(A, dfs, dirname(dq))
         /\ ~IsDirAt(A, dfs, dq))

\* a rename that removes the source and leaves a file at the destination as
\* it was
rename_file_keeps_dest(A, fs, q, new_name) ==
    Then(<<NewNameFs(new_name), NewNamePath(new_name),
           Without(A, {<<fs, q>>})>>, LAMBDA d :
      LET dfs == d[1]
          dq == d[2]
          B == d[3]
          moved == A.st[<<fs, q>>]
      IN [B EXCEPT !.st = [k \in DOMAIN B.st \cup {<<dfs, dq>>} |->
                              IF k \in DOMAIN B.st THEN B.st[k] ELSE moved]])

rename_file(A, fs, q, new_name) ==
    Then(<<NewNameFs(new_name), NewNamePath(new_name),
           Without(A, {<<fs, q>>})>>, LAMBDA d :
      LET dfs == d[1]
          dq == d[2]
          B == d[3]
          moved == A.st[<<fs, q>>]
      IN [B EXCEPT !.st = [k \in DOMAIN B.st \cup {<<dfs, dq>>} |->
                              IF k = <<dfs, dq>> THEN moved ELSE B.st[k]]])

\* DataLakeDirectoryClient.rename_directory(new_name): the directory and all
\* below it move; the destination is absent or an empty directory
rename_directory_ok(A, fs, q, new_name) ==
    Then(<<NewNameFs(new_name), NewNamePath(new_name)>>, LAMBDA d :
      LET dfs == d[1]
          dq == d[2]
      IN /\ fs \in A.fss /\ q # <<>> /\ IsDirAt(A, fs, q)
         /\ dfs \in A.fss /\ dq # <<>>
         /\ IsDirAt(A, dfs, dirname(dq))
         /\ ~IsFileAt(A, dfs, dq)
         /\ ~(dfs = fs /\ IsUnder(dq, q))
         /\ ((dfs = fs /\ dq = q) \/ \A e \in PathsOf(A, dfs) : ~IsUnder(e, dq)))

rename_directory(A, fs, q, new_name) ==
    Then(<<NewNameFs(new_name), NewNamePath(new_name),
           {e \in PathsOf(A, fs) : e = q \/ IsUnder(e, q)}>>, LAMBDA d :
      LET dfs == d[1]
          dq == d[2]
          src == d[3]
          To(e) == dq \o SubSeq(e, Len(q) + 1, Len(e))
      IN Then(<<Without(A, {<<fs, e>> : e \in src} \cup {<<dfs, dq>>}),
                {<<dfs, To(e)>> : e \in src}>>, LAMBDA w :
           LET B == w[1]
               new == w[2]
           IN [B EXCEPT !.st = [k \in DOMAIN B.st \cup new |->
                  IF k \in new
                  THEN A.st[<<fs, CHOOSE e \in src : To(e) = k[2]>>]
                  ELSE B.st[k]]]))

\* DataLakeServiceClient.create_file_system(name): ResourceExistsError when
\* the file system exists
create_file_system(A, name) == [A EXCEPT !.fss = @ \cup {name}]

\* DataLakeServiceClient.delete_file_system(name): the file system with all
\* its paths
delete_file_system(A, name) ==
    [Without(A, {k \in DOMAIN A.st : k[1] = name}) EXCEPT !.fss = @ \ {name}]

\* DataLakeServiceClient.list_file_systems(): the names, sorted
list_file_systems(A) == SortPaths(A.fss)

----------------------------------------------------------------------------
(* FilesystemHandler: h = [file_system_name, prefix_fs].  An operation on   *)
(* the account A returns the account after it, the error raised ("none" if  *)
(* it returned), its value and the remote calls it issued, in order.        *)

\* The Python values a handler keeps in prefix_fs and timeouts: a bool, or a
\* Timeouts object (a dataclass of four optional timeouts, lines 37-67)
PyBool(b) == [class |-> "bool", fields |-> <<b>>]

Timeouts(file_client, file_system, datalake_service, directory_client) ==
    [class |-> "Timeouts",
     fields |-> <<file_client, file_system, datalake_service, directory_client>>]

DEFAULT_TIMEOUTS == Timeouts(None, None, None, None)

\* Python's truth test, as `if self.prefix_fs` applies it: a bool is its
\* value; Timeouts defines neither __bool__ nor __len__, so it is true
Truthy(v) == IF v.class = "bool" THEN v.fields[1] ELSE TRUE

\* FilesystemHandler(file_system_client, prefix_fs=..., timeouts=...)
Handler(name, prefix_fs) == [file_system_name |-> name, prefix_fs |-> prefix_fs]

\* FilesystemHandler(file_system_client, *positional): __init__ binds the
\* positional arguments after the client to prefix_fs, then timeouts
HandlerPositional(name, positional) ==
    Handler(name, IF Len(positional) >= 1 THEN positional[1] ELSE PyBool(FALSE))

\* from_account_name(account_name, file_system_name, credential, timeouts):
\* `return cls(client, timeouts)`
from_account_name(file_system_name, timeouts) ==
    HandlerPositional(file_system_name, <<timeouts>>)

Ret(A, err, val, calls) == [A |-> A, err |-> err, val |-> val, calls |-> calls]

NoVal == <<>>

FileInfo(path, type, size) == [path |-> path, type |-> type, size |-> size]

\* paths returned without the file system name
PrefixNone(h, path) == path

_prefix(h, path) ==
    IF Truthy(h.prefix_fs) /\ path # <<>>
    THEN h.file_system_name \o <<Sep>> \o path
    ELSE IF Truthy(h.prefix_fs) /\ path = <<>> THEN h.file_system_name
    ELSE path

_create_file_info(h, path_properties) ==
    FileInfo(_prefix(h, path_properties.name),
             IF path_properties.is_directory THEN "Directory" ELSE "File",
             path_properties.content_length)

CreateFileInfos(h, listing) ==
    [i \in 1..Len(listing) |-> _create_file_info(h, listing[i])]

\* a verification that reports every failure as FileNotFoundError
_verify_is_dir_not_found(A, h, path_) ==
    Then(path_, LAMBDA path :
      IF path \in {<<>>, <<Sep>>} THEN Ret(A, "none", NoVal, NoCall)
      ELSE
        Then(dirname(path), LAMBDA parent :
          LET fs == h.file_system_name
              c == <<ACall("get_paths", fs, parent, <<>>)>>
          IN IF IsDirAt(A, fs, path) /\ fs \in A.fss
             THEN Ret(A, "none", NoVal, c)
             ELSE Ret(A, "NotFound", NoVal, c)))

_verify_is_dir(A, h, path_) ==
    Then(path_, LAMBDA path :
      IF path \in {<<>>, <<Sep>>} THEN Ret(A, "none", NoVal, NoCall)
      ELSE
        Then(dirname(path), LAMBDA parent :
          LET fs == h.file_system_name
              c == <<ACall("get_paths", fs, parent, <<>>)>>
          IN IF get_paths_status(A, fs, parent) = "Storage404"
             THEN Ret(A, "NotFound", NoVal, c)
             ELSE Then(get_paths(A, fs, parent, FALSE), LAMBDA listing :
                    IF \E i \in 1..Len(listing) :
                          listing[i].name = path /\ listing[i].is_directory
                    THEN Ret(A, "none", NoVal, c)
                    ELSE Ret(A, "NotADirectory", NoVal, c))))

fs_get_file_info_(A, h, path_) ==
    Then(path_, LAMBDA path :
      IF lstrip(path) = <<>>
      THEN Ret(A, "none",
               FileInfo(IF Truthy(h.prefix_fs) THEN h.file_system_name ELSE <<>>,
                        "Directory", None),
               NoCall)
      ELSE
        Then(dirname(path), LAMBDA parent :
          LET fs == h.file_system_name
              c == <<ACall("get_paths", fs, parent, <<>>)>>
          IN IF get_paths_status(A, fs, parent) # "none"
             THEN Ret(A, "Storage404", NoVal, c)
             ELSE Then(get_paths(A, fs, parent, FALSE), LAMBDA listing :
                    LET hits == {i \in 1..Len(listing) : listing[i].name = path}
                    IN IF hits # {}
                       THEN Ret(A, "none",
                                _create_file_info(h, listing[CHOOSE i \in hits : TRUE]),
                                c)
                       ELSE Ret(A, "NotFound", NoVal, c))))

\* get_file_info([path])[0]
fs_get_file_info(A, h, path) == fs_get_file_info_(A, h, normalize_path(path))

fs_get_file_info_selector(A, h, base_dir, recursive, allow_not_found) ==
    LET fs == h.file_system_name
        base == normalize_path(base_dir)
    IN Then(_verify_is_dir(A, h, base), LAMBDA v :
         LET c == Append(v.calls, ACall("get_paths", fs, base, <<>>))
         IN IF v.err = "NotFound" /\ allow_not_found
            THEN Ret(A, "none", <<>>, v.calls)
            ELSE IF v.err # "none" THEN v
            ELSE IF get_paths_status(A, fs, base) # "none"
            THEN Ret(A, "Storage404", NoVal, c)
            ELSE Ret(A, "none",
                     CreateFileInfos(h, get_paths(A, fs, base, recursive)), c))

fs_create_directory(A, h, path, calls) ==
    LET fs == h.file_system_name
        c == Append(calls, ACall("create_directory", fs, path, <<>>))
    IN IF create_directory_ok(A, fs, path)
       THEN Ret(create_directory(A, fs, path), "none", NoVal, c)
       ELSE Ret(A, "StorageError", NoVal, c)

\* create_dir without the parent verification of lines 416-417
fs_create_dir_unverified(A, h, path_, recursive) ==
    fs_create_directory(A, h, normalize_path(path_), NoCall)

fs_create_dir(A, h, path_, recursive) ==
    LET path == normalize_path(path_)
    IN IF recursive THEN fs_create_directory(A, h, path, NoCall)
       ELSE Then(_verify_is_dir(A, h, dirname(path)), LAMBDA v :
              IF v.err # "none" THEN v
              ELSE fs_create_directory(A, h, path, v.calls))

fs_delete_directory(A, h, path, calls) ==
    LET fs == h.file_system_name
        c == Append(calls, ACall("delete_directory", fs, path, <<>>))
    IN IF delete_directory_ok(A, fs, path)
       THEN Ret(delete_directory(A, fs, path), "none", NoVal, c)
       ELSE Ret(A, "StorageError", NoVal, c)

fs_delete_file_(A, h, path, calls) ==
    LET fs == h.file_system_name
        c == Append(calls, ACall("delete_file", fs, path, <<>>))
    IN IF delete_file_ok(A, fs, path)
       THEN Ret(delete_file_(A, fs, path), "none", NoVal, c)
       ELSE Ret(A, "StorageError", NoVal, c)

fs_delete_dir(A, h, path_) ==
    LET path == normalize_path(path_)
    IN Then(_verify_is_dir(A, h, path), LAMBDA v :
         IF v.err # "none" THEN v ELSE fs_delete_directory(A, h, path, v.calls))

\* the loop of delete_dir_contents over the listing taken before it
RECURSIVE DeleteEach(_, _, _, _)
DeleteEach(A, h, listing, calls) ==
    IF listing = <<>> THEN Ret(A, "none", NoVal, calls)
    ELSE Then(IF Head(listing).is_directory
              THEN fs_delete_directory(A, h, Head(listing).name, calls)
              ELSE fs_delete_file_(A, h, Head(listing).name, calls),
              LAMBDA one :
                IF one.err # "none" THEN one
                ELSE DeleteEach(one.A, h, Tail(listing), one.calls))

fs_delete_dir_contents(A, h, path_, accept_root_dir) ==
    LET fs == h.file_system_name
        path == normalize_path(path_)
    IN Then(_verify_is_dir(A, h, path), LAMBDA v :
         LET c == Append(v.calls, ACall("get_paths", fs, path, <<>>))
         IN IF v.err # "none" THEN v
            ELSE IF ~accept_root_dir /\ path \in {<<>>, <<Sep>>}
            THEN Ret(A, "InvalidOperation", NoVal, v.calls)
            ELSE IF get_paths_status(A, fs, path) # "none"
            THEN Ret(A, "Storage404", NoVal, c)
            ELSE DeleteEach(A, h, get_paths(A, fs, path, FALSE), c))

\* delete_file without the kind test of lines 444-445
fs_delete_file_unchecked(A, h, path_) ==
    fs_delete_file_(A, h, normalize_path(path_), NoCall)

fs_delete_file(A, h, path_) ==
    LET path == normalize_path(path_)
    IN Then(fs_get_file_info(A, h, path), LAMBDA i :
         IF i.err # "none" THEN i
         ELSE IF i.val.type # "File" THEN Ret(A, "IsADirectory", NoVal, i.calls)
         ELSE fs_delete_file_(A, h, path, i.calls))

fs_rename_file(A, h, src_path, dest_path, calls) ==
    LET fs == h.file_system_name
        c == Append(calls, ACall("rename_file", fs, src_path, dest_path))
    IN IF rename_file_ok(A, fs, src_path, dest_path)
       THEN Ret(rename_file(A, fs, src_path, dest_path), "none", NoVal, c)
       ELSE Ret(A, "StorageError", NoVal, c)

fs_rename_directory(A, h, src_path, dest_path, calls) ==
    LET fs == h.file_system_name
        c == Append(calls, ACall("rename_directory", fs, src_path, dest_path))
    IN IF rename_directory_ok(A, fs, src_path, dest_path)
       THEN Ret(rename_directory(A, fs, src_path, dest_path), "none", NoVal, c)
       ELSE Ret(A, "StorageError", NoVal, c)

\* _verify_is_file, then DatalakeGen2File(fc, mode='rb'): no remote call of
\* its own
fs_open_input_stream(A, h, path_) ==
    Then(fs_get_file_info(A, h, normalize_path(path_)), LAMBDA i :
      IF i.err # "none" THEN i
      ELSE IF i.val.type # "File" THEN Ret(A, "NotFound", NoVal, i.calls)
      ELSE Ret(A, "none", NoVal, i.calls))

fs_open_input_file(A, h, path_) == fs_open_input_stream(A, h, path_)

\* DatalakeGen2File(fc, mode='ab'): nothing is called until the first flush
fs_open_append_stream(A, h, path_) == Ret(A, "none", NoVal, NoCall)

\* open_output_stream: DatalakeGen2File(fc, mode='wb') creates the file
fs_open_output_stream(A, h, path_) ==
    LET fs == h.file_system_name
        path == normalize_path(path_)
        c == <<ACall("create_file", fs, path, <<>>)>>
    IN IF create_file_ok(A, fs, path)
       THEN Ret(create_remote_file(A, fs, path), "none", NoVal, c)
       ELSE Ret(A, "StorageError", NoVal, c)

----------------------------------------------------------------------------
(* AccountHandler.  The account record A also carries reg, the dictionary   *)
(* file_system_handlers.                                                    *)

EmptyReg == [k \in {} |-> 0]

\* _split_path: (fs_name, path), or the error it raises
_split_path(path_) ==
    Then(normalize_path(path_), LAMBDA path :
      IF ~HasSep(path) THEN [fs |-> path, path |-> <<>>, err |-> "none"]
      ELSE Then(Split(path), LAMBDA pieces :
             Then(Join(Tail(pieces)), LAMBDA rest :
               [fs |-> pieces[1], path |-> rest,
                err |-> IF rest # <<>> /\ rest[Len(rest)] = Sep
                        THEN "InvalidPath" ELSE "none"])))

\* _fs: the cached handler, created with prefix_fs=True on first access
_fs(A, fs_name) ==
    IF fs_name \in DOMAIN A.reg THEN A
    ELSE [A EXCEPT !.reg = [k \in DOMAIN A.reg \cup {fs_name} |->
                               IF k = fs_name THEN Handler(fs_name, PyBool(TRUE))
                               ELSE A.reg[k]]]

\* a root reported as a file
RootInfoFile == FileInfo(<<>>, "File", None)

\* The synthetic entry of the account root
RootInfo == FileInfo(<<>>, "Directory", None)

acct_get_file_info(A, path_) ==
    Then(_split_path(path_), LAMBDA sp :
      IF sp.err # "none" THEN Ret(A, sp.err, NoVal, NoCall)
      ELSE IF sp.fs = <<>> THEN Ret(A, "none", RootInfo, NoCall)
      ELSE Then(_fs(A, sp.fs), LAMBDA B :
             fs_get_file_info_(B, B.reg[sp.fs], sp.path)))

\* the loop `for fs in self.list_file_systems(): file_system_data.extend(...)`
RECURSIVE ExtendEach(_, _, _, _, _, _)
ExtendEach(A, names, base_dir, allow_not_found, data, calls) ==
    IF names = <<>> THEN Ret(A, "none", data, calls)
    ELSE Then(_fs(A, Head(names)), LAMBDA B :
           Then(fs_get_file_info_selector(B, B.reg[Head(names)], base_dir,
                                          TRUE, allow_not_found),
                LAMBDA o :
                  IF o.err # "none" THEN Ret(o.A, o.err, NoVal, calls \o o.calls)
                  ELSE ExtendEach(o.A, Tail(names), base_dir, allow_not_found,
                                  data \o o.val, calls \o o.calls)))

ListCall == ACall("list_file_systems", <<>>, <<>>, <<>>)

acct_get_file_info_selector(A, base_dir, recursive, allow_not_found) ==
    Then(_split_path(base_dir), LAMBDA sp :
      LET names == list_file_systems(A)
          file_system_data == [i \in 1..Len(names) |->
                                  FileInfo(names[i], "Directory", None)]
      IN IF sp.err # "none" THEN Ret(A, sp.err, NoVal, NoCall)
         ELSE IF sp.fs = <<>>
         THEN IF recursive
              THEN ExtendEach(A, names, base_dir, allow_not_found,
                              file_system_data, <<ListCall, ListCall>>)
              ELSE Ret(A, "none", file_system_data, <<ListCall>>)
         ELSE Then(_fs(A, sp.fs), LAMBDA B :
                fs_get_file_info_selector(B, B.reg[sp.fs], sp.path,
                                          recursive, allow_not_found)))

\* create_dir, lines 655-661: create the file system, keep its handler;
\* ResourceExistsError is ignored
\* a create_file_system whose ResourceExistsError is not swallowed
CreateFsStepStrict(A, fs_name) ==
    IF fs_name \in A.fss
    THEN Ret(A, "StorageError", NoVal,
             <<ACall("create_file_system", fs_name, <<>>, <<>>)>>)
    ELSE Ret([create_file_system(A, fs_name) EXCEPT
                 !.reg = [k \in DOMAIN A.reg \cup {fs_name} |->
                            IF k = fs_name THEN Handler(fs_name, PyBool(TRUE))
                            ELSE A.reg[k]]],
             "none", NoVal, <<ACall("create_file_system", fs_name, <<>>, <<>>)>>)

CreateFsStep(A, fs_name) ==
    LET c == <<ACall("create_file_system", fs_name, <<>>, <<>>)>>
    IN IF fs_name = <<>> THEN Ret(A, "StorageError", NoVal, c)
       ELSE IF fs_name \in A.fss THEN Ret(A, "none", NoVal, c)
       ELSE LET B == create_file_system(A, fs_name)
            IN Ret([B EXCEPT !.reg = [k \in DOMAIN B.reg \cup {fs_name} |->
                                         IF k = fs_name THEN Handler(fs_name, PyBool(TRUE))
                                         ELSE B.reg[k]]],
                   "none", NoVal, c)

acct_create_dir(A, path_, recursive) ==
    Then(_split_path(path_), LAMBDA sp :
      IF sp.err # "none" THEN Ret(A, sp.err, NoVal, NoCall)
      ELSE
        Then(IF recursive \/ sp.path = <<>>
             THEN CreateFsStep(A, sp.fs)
             ELSE Ret(A, "none", NoVal, NoCall),
             LAMBDA first :
               LET c == Append(first.calls, ListCall)
               IN IF first.err # "none" THEN first
                  ELSE IF sp.path = <<>> THEN first
                  ELSE IF sp.fs \notin first.A.fss
                  THEN Ret(first.A, "NotFound", NoVal, c)
                  ELSE Then(_fs(first.A, sp.fs), LAMBDA B :
                         Then(fs_create_dir(B, B.reg[sp.fs], sp.path, recursive),
                              LAMBDA o : Ret(o.A, o.err, o.val, c \o o.calls)))))

\* a delete that also drops the handler of the file system
DeleteFsStepEvicting(A, fs_name, calls) ==
    LET c == Append(calls, ACall("delete_file_system", fs_name, <<>>, <<>>))
    IN IF fs_name \in A.fss
       THEN Ret([delete_file_system(A, fs_name) EXCEPT
                    !.reg = [k \in DOMAIN A.reg \ {fs_name} |-> A.reg[k]]],
                "none", NoVal, c)
       ELSE Ret(A, "StorageError", NoVal, c)

DeleteFsStep(A, fs_name, calls) ==
    LET c == Append(calls, ACall("delete_file_system", fs_name, <<>>, <<>>))
    IN IF fs_name \in A.fss
       THEN Ret(delete_file_system(A, fs_name), "none", NoVal, c)
       ELSE Ret(A, "StorageError", NoVal, c)

acct_delete_dir(A, path_) ==
    Then(_split_path(path_), LAMBDA sp :
      IF sp.err # "none" THEN Ret(A, sp.err, NoVal, NoCall)
      ELSE IF sp.path = <<>> THEN DeleteFsStep(A, sp.fs, NoCall)
      ELSE Then(_fs(A, sp.fs), LAMBDA B : fs_delete_dir(B, B.reg[sp.fs], sp.path)))

\* the loop `for fs in self.list_file_systems(): self.delete_file_system(fs.name)`
RECURSIVE DeleteEachFs(_, _, _)
DeleteEachFs(A, names, calls) ==
    IF names = <<>> THEN Ret(A, "none", NoVal, calls)
    ELSE Then(DeleteFsStep(A, Head(names), calls), LAMBDA o :
           IF o.err # "none" THEN o ELSE DeleteEachFs(o.A, Tail(names), o.calls))

\* a root emptied whether asked to or not
RootAcceptedAlways(accept_root_dir) == TRUE

\* delete_dir_contents, line 677: the root is emptied only when asked to
RootAccepted(accept_root_dir) == accept_root_dir

acct_delete_dir_contents(A, path_, accept_root_dir) ==
    Then(_split_path(path_), LAMBDA sp :
      IF sp.err # "none" THEN Ret(A, sp.err, NoVal, NoCall)
      ELSE IF sp.fs = <<>>
      THEN IF RootAccepted(accept_root_dir)
           THEN DeleteEachFs(A, list_file_systems(A), <<ListCall>>)
           ELSE Ret(A, "InvalidOperation", NoVal, NoCall)
      ELSE Then(_fs(A, sp.fs), LAMBDA B :
             fs_delete_dir_contents(B, B.reg[sp.fs], sp.path, TRUE)))

acct_delete_file(A, path_) ==
    Then(_split_path(path_), LAMBDA sp :
      IF sp.err # "none" THEN Ret(A, sp.err, NoVal, NoCall)
      ELSE IF sp.fs = <<>> THEN Ret(A, "NotFound", NoVal, NoCall)
      ELSE IF sp.path = <<>> THEN Ret(A, "IsADirectory", NoVal, NoCall)
      ELSE IF sp.fs \notin A.fss THEN Ret(A, "NotFound", NoVal, <<ListCall>>)
      ELSE Then(_fs(A, sp.fs), LAMBDA B :
             Then(fs_delete_file(B, B.reg[sp.fs], sp.path), LAMBDA o :
               Ret(o.A, o.err, o.val, <<ListCall>> \o o.calls))))

\* move, lines 712-722: what the checks on an existing destination raise;
\* FileNotFoundError inside the try block is swallowed
\* move without the kind comparison of line 719
MoveTypeConflictNever(fi, dest_fi) == FALSE

MoveTypeConflict(fi, dest_fi) == fi.type # dest_fi.type

\* move without the emptiness test of line 717
DestNonEmptyNever(listing) == FALSE

\* move, line 717: a Directory destination must list as empty
DestNonEmpty(listing) == listing # <<>>

DestDirCheck(A, fi, dest_fi, dest) ==
    Then(acct_get_file_info_selector(A, dest, FALSE, FALSE), LAMBDA sel :
      LET c == dest_fi.calls \o sel.calls
      IN IF sel.err = "NotFound" THEN Ret(sel.A, "none", NoVal, c)
         ELSE IF sel.err # "none" THEN Ret(sel.A, sel.err, NoVal, c)
         ELSE IF DestNonEmpty(sel.val) THEN Ret(sel.A, "Conflict", NoVal, c)
         ELSE IF MoveTypeConflict(fi, dest_fi.val)
         THEN Ret(sel.A, "Conflict", NoVal, c)
         ELSE Ret(sel.A, "none", NoVal, c))

DestCheck(A, fi, dest) ==
    Then(acct_get_file_info(A, dest), LAMBDA dest_fi :
      IF dest_fi.err = "NotFound"
      THEN Ret(dest_fi.A, "none", NoVal, dest_fi.calls)
      ELSE IF dest_fi.err # "none" THEN dest_fi
      ELSE IF dest_fi.val.type = "Directory"
      THEN DestDirCheck(dest_fi.A, fi, dest_fi, dest)
      ELSE IF MoveTypeConflict(fi, dest_fi.val)
      THEN Ret(dest_fi.A, "Conflict", NoVal, dest_fi.calls)
      ELSE Ret(dest_fi.A, "none", NoVal, dest_fi.calls))

\* move, lines 724-727: the one mutating call
Rename(A, h, fi, src_path, dest, calls) ==
    IF fi.type = "File"
    THEN fs_rename_file(A, h, src_path, dest, calls)
    ELSE fs_rename_directory(A, h, src_path, dest, calls)

\* a bare file system name let through
BareNamespaceNever(sp) == FALSE

\* move, lines 704 and 706: `if not src_path`, `if not dst_path`
BareNamespace(sp) == sp.path = <<>>

\* a move that renames before it looks at the destination
acct_move_rename_first(A, src, dest) ==
    Then(<<_split_path(src), _split_path(dest)>>, LAMBDA sd :
      LET s == sd[1]
          d == sd[2]
      IN IF s.err # "none" THEN Ret(A, s.err, NoVal, NoCall)
         ELSE IF d.err # "none" THEN Ret(A, d.err, NoVal, NoCall)
         ELSE IF BareNamespace(s) THEN Ret(A, "InvalidOperation", NoVal, NoCall)
         ELSE IF BareNamespace(d) THEN Ret(A, "InvalidOperation", NoVal, NoCall)
         ELSE
           Then(_fs(A, s.fs), LAMBDA B :
             Then(fs_get_file_info(B, B.reg[s.fs], s.path), LAMBDA fi :
               IF fi.err # "none" THEN fi
               ELSE
                 Then(DestCheck(B, fi.val, dest), LAMBDA chk :
                   Then(Rename(chk.A, chk.A.reg[s.fs], fi.val, s.path, dest,
                               fi.calls), LAMBDA rn :
                     IF chk.err # "none"
                     THEN Ret(rn.A, chk.err, NoVal, rn.calls \o chk.calls)
                     ELSE Ret(rn.A, rn.err, NoVal, rn.calls \o chk.calls))))))

acct_move(A, src, dest) ==
    Then(<<_split_path(src), _split_path(dest)>>, LAMBDA sd :
      LET s == sd[1]
          d == sd[2]
      IN IF s.err # "none" THEN Ret(A, s.err, NoVal, NoCall)
         ELSE IF d.err # "none" THEN Ret(A, d.err, NoVal, NoCall)
         ELSE IF BareNamespace(s) THEN Ret(A, "InvalidOperation", NoVal, NoCall)
         ELSE IF BareNamespace(d) THEN Ret(A, "InvalidOperation", NoVal, NoCall)
         ELSE
           Then(_fs(A, s.fs), LAMBDA B :
             Then(fs_get_file_info(B, B.reg[s.fs], s.path), LAMBDA fi :
               IF fi.err # "none" THEN fi
               ELSE
                 Then(DestCheck(B, fi.val, dest), LAMBDA chk :
                   IF chk.err # "none"
                   THEN Ret(chk.A, chk.err, NoVal, fi.calls \o chk.calls)
                   ELSE Then(_fs(chk.A, s.fs), LAMBDA C :
                          Rename(C, C.reg[s.fs], fi.val, s.path, dest,
                                 fi.calls \o chk.calls))))))

\* a root-level name let through
_require_path_never(path) == "none"

\* _require_path
_require_path(path) == IF path = <<>> THEN "InvalidOperation" ELSE "none"

acct_open_input_stream(A, path_) ==
    Then(_split_path(path_), LAMBDA sp :
      IF sp.err # "none" THEN Ret(A, sp.err, NoVal, NoCall)
      ELSE IF _require_path(sp.path) # "none"
      THEN Ret(A, _require_path(sp.path), NoVal, NoCall)
      ELSE Then(_fs(A, sp.fs), LAMBDA B :
             fs_open_input_stream(B, B.reg[sp.fs], sp.path)))

acct_open_input_file(A, path_) ==
    Then(_split_path(path_), LAMBDA sp :
      IF sp.err # "none" THEN Ret(A, sp.err, NoVal, NoCall)
      ELSE IF _require_path(sp.path) # "none"
      THEN Ret(A, _require_path(sp.path), NoVal, NoCall)
      ELSE Then(_fs(A, sp.fs), LAMBDA B :
             fs_open_input_file(B, B.reg[sp.fs], sp.path)))

acct_open_append_stream(A, path_) ==
    Then(_split_path(path_), LAMBDA sp :
      IF sp.err # "none" THEN Ret(A, sp.err, NoVal, NoCall)
      ELSE IF _require_path(sp.path) # "none"
      THEN Ret(A, _require_path(sp.path), NoVal, NoCall)
      ELSE Then(_fs(A, sp.fs), LAMBDA B :
             fs_open_append_stream(B, B.reg[sp.fs], sp.path)))

acct_open_output_stream(A, path_) ==
    Then(_split_path(path_), LAMBDA sp :
      IF sp.err # "none" THEN Ret(A, sp.err, NoVal, NoCall)
      ELSE IF _require_path(sp.path) # "none"
      THEN Ret(A, _require_path(sp.path), NoVal, NoCall)
      ELSE Then(_fs(A, sp.fs), LAMBDA B :
             fs_open_output_stream(B, B.reg[sp.fs], sp.path)))

\* The remote file behind the DataLakeFileClient of an entry of the store
RemoteOf(A, fs, q) ==
    IF IsFileAt(A, fs, q)
    THEN [exists |-> TRUE, content |-> A.st[<<fs, q>>].content, staged |-> <<>>]
    ELSE [exists |-> FALSE, content |-> <<>>, staged |-> <<>>]

\* out.write(data) on the stream open_output_stream(path) returned, and the
\* close() at the end of the `with` block; the stream wraps a
\* DatalakeGen2File in mode 'wb'
WriteAndClose(A, path_, data, calls) ==
    Then(_split_path(path_), LAMBDA sp :
      Then(Write(NewFile("wb"), RemoteOf(A, sp.fs, sp.path), data, "none"),
           LAMBDA w :
        Then(Close(w.f, w.r, "none"), LAMBDA c :
          LET fc == w.calls \o c.calls
          IN Ret([A EXCEPT !.st[<<sp.fs, sp.path>>].content = c.r.content],
                 IF w.err # "none" THEN w.err ELSE c.err, NoVal,
                 calls \o [i \in 1..Len(fc) |->
                             ACall(fc[i].call, sp.fs, sp.path, <<>>)]))))

\* `with handler.open_output_stream(path) as out: out.write(data)`
acct_write_file(A, path_, data) ==
    Then(acct_open_output_stream(A, path_), LAMBDA o :
      IF o.err # "none" THEN o
      ELSE WriteAndClose(o.A, path_, data, o.calls))

\* copy_file: the destination is looked at, then both streams are opened,
\* the output stream second, and only then the source is read
acct_copy_file(A, src, dest) ==
    Then(acct_get_file_info(A, dest), LAMBDA dest_fi :
      IF dest_fi.err \notin {"none", "NotFound"} THEN dest_fi
      ELSE IF dest_fi.err = "none" /\ dest_fi.val.type = "Directory"
      THEN Ret(dest_fi.A, "IsADirectory", NoVal, dest_fi.calls)
      ELSE
        Then(acct_open_input_stream(dest_fi.A, src), LAMBDA read_from :
          IF read_from.err # "none"
          THEN Ret(read_from.A, read_from.err, NoVal,
                   dest_fi.calls \o read_from.calls)
          ELSE
            Then(acct_open_output_stream(read_from.A, dest), LAMBDA write_to :
              LET c == dest_fi.calls \o read_from.calls \o write_to.calls
              IN IF write_to.err # "none"
                 THEN Ret(write_to.A, write_to.err, NoVal, c)
                 ELSE
                   Then(_split_path(src), LAMBDA sp :
                     Then(Read(NewFile("rb"),
                               RemoteOf(write_to.A, sp.fs, sp.path), -1, "none"),
                          LAMBDA rd :
                       LET cr == c \o [i \in 1..Len(rd.calls) |->
                                         ACall(rd.calls[i].call, sp.fs, sp.path, <<>>)]
                       IN IF rd.err # "none"
                          THEN Ret(write_to.A, rd.err, NoVal, cr)
                          ELSE WriteAndClose(write_to.A, dest, rd.data, cr))))))

----------------------------------------------------------------------------
(* The calls a client makes on one AccountHandler (Spec) *)
\* what the client writes to a file: less than a block, and a whole block
FileData == {NextData(0, k) : k \in {BlockSize - 1, BlockSize}}


MaxDepth == 2       \* deepest path kept in a file system

\* the paths clients pass: "", "/", "n", "m", "n/x", "n/y", "n/x/y",
\* "/n/x/", "m/x"
InputPaths ==
    { <<>>, <<"/">>, <<"n">>, <<"m">>,
      <<"n", "/", "x">>, <<"n", "/", "y">>, <<"n", "/", "x", "/", "y">>,
      <<"/", "n", "/", "x", "/">>, <<"m", "/", "x">> }

Account == [fss |-> fileSystems, st |-> store, reg |-> file_system_handlers]

WithinDepth(A) == \A k \in DOMAIN A.st : Depth(k[2]) <= MaxDepth

\* the arguments of a call, and the handler it is made on: the router, or a
\* FilesystemHandler the client built itself
NoPaths == [src |-> <<>>, dest |-> <<>>, recursive |-> FALSE, flag |-> FALSE,
            handler |-> "router"]

\* the file system the client's own FilesystemHandler objects are built on
StandaloneFs == <<"n">>

\* FilesystemHandler(client), as the test fixture fs_handler builds it, and
\* FilesystemHandler.from_account_name(account_name, "n", credential)
StandaloneHandlers == {"direct", "from_account_name"}

StandaloneHandler(how) ==
    IF how = "direct" THEN HandlerPositional(StandaloneFs, <<>>)
    ELSE from_account_name(StandaloneFs, DEFAULT_TIMEOUTS)

\* the paths clients pass to a FilesystemHandler: "", "/", "x", "y", "x/y",
\* "y/x", "/x/"
FsInputPaths ==
    { <<>>, <<"/">>, <<"x">>, <<"y">>, <<"x", "/", "y">>, <<"y", "/", "x">>,
      <<"/", "x", "/">> }

\* no call on the handler is in progress
IdleResult == [op |-> "idle", args |-> NoPaths, err |-> "none", val |-> NoVal,
               calls |-> NoCall]

AcctApplied(op, args, o) ==
    /\ WithinDepth(o.A)
    /\ fileSystems' = o.A.fss
    /\ store' = o.A.st
    /\ file_system_handlers' = o.A.reg
    /\ result' = [op |-> op, args |-> args, err |-> o.err, val |-> o.val,
                  calls |-> o.calls]
    /\ UNCHANGED <<fileVars, threads>>

MaxThreads == 2     \* threads that share the AccountHandler
MaxCalls == 2       \* calls each thread makes

Threads == 1..MaxThreads

\* A thread between two calls: it has made `calls` calls and constructed
\* `made` handlers; `got` is what its _fs calls returned so far, as pairs of
\* file system name and handler object.
IdleThread == [pc |-> "idle", fs_name |-> <<>>, calls |-> 0, made |-> 0, got |-> {}]

AcctInit ==
    /\ fileSystems = {}
    /\ store = EmptyStore
    /\ file_system_handlers = EmptyReg
    /\ result = IdleResult
    /\ threads = [t \in Threads |-> IdleThread]

\* AccountHandler(datalake_service) on an empty account
Init ==
    /\ AcctInit
    /\ FileConstructed("rb", [exists |-> FALSE, content |-> <<>>, staged |-> <<>>])

\* DatalakeGen2File(file_client, mode) on a remote file
FileSpecInit == AcctInit /\ FileInit

GetFileInfo(path) ==
    /\ result = IdleResult
    /\ \E o \in {acct_get_file_info(Account, path)} :
           AcctApplied("get_file_info", [NoPaths EXCEPT !.src = path], o)

GetFileInfoSelector(base_dir, recursive, allow_not_found) ==
    /\ result = IdleResult
    /\ \E o \in {acct_get_file_info_selector(Account, base_dir, recursive,
                                             allow_not_found)} :
           AcctApplied("get_file_info_selector",
                       [NoPaths EXCEPT !.src = base_dir, !.recursive = recursive,
                                       !.flag = allow_not_found], o)

CreateDir(path, recursive) ==
    /\ result = IdleResult
    /\ \E o \in {acct_create_dir(Account, path, recursive)} :
           AcctApplied("create_dir",
                       [NoPaths EXCEPT !.src = path, !.recursive = recursive], o)

DeleteDir(path) ==
    /\ result = IdleResult
    /\ \E o \in {acct_delete_dir(Account, path)} :
           AcctApplied("delete_dir", [NoPaths EXCEPT !.src = path], o)

DeleteDirContents(path, accept_root_dir) ==
    /\ result = IdleResult
    /\ \E o \in {acct_delete_dir_contents(Account, path, accept_root_dir)} :
           AcctApplied("delete_dir_contents",
                       [NoPaths EXCEPT !.src = path, !.flag = accept_root_dir], o)

DeleteFile(path) ==
    /\ result = IdleResult
    /\ \E o \in {acct_delete_file(Account, path)} :
           AcctApplied("delete_file", [NoPaths EXCEPT !.src = path], o)

Move(src, dest) ==
    /\ result = IdleResult
    /\ \E o \in {acct_move(Account, src, dest)} :
           AcctApplied("move", [NoPaths EXCEPT !.src = src, !.dest = dest], o)

OpenOutputStream(path) ==
    /\ result = IdleResult
    /\ \E o \in {acct_open_output_stream(Account, path)} :
           AcctApplied("open_output_stream", [NoPaths EXCEPT !.src = path], o)

WriteFile(path, data) ==
    /\ result = IdleResult
    /\ \E o \in {acct_write_file(Account, path, data)} :
           AcctApplied("write_file", [NoPaths EXCEPT !.src = path], o)

CopyFile(src, dest) ==
    /\ result = IdleResult
    /\ \E o \in {acct_copy_file(Account, src, dest)} :
           AcctApplied("copy_file", [NoPaths EXCEPT !.src = src, !.dest = dest], o)

\* the call returns (or raises) to the client
OpenInputStream(path) ==
    /\ result = IdleResult
    /\ \E o \in {acct_open_input_stream(Account, path)} :
           AcctApplied("open_input_stream", [NoPaths EXCEPT !.src = path], o)

OpenInputFile(path) ==
    /\ result = IdleResult
    /\ \E o \in {acct_open_input_file(Account, path)} :
           AcctApplied("open_input_file", [NoPaths EXCEPT !.src = path], o)

OpenAppendStream(path) ==
    /\ result = IdleResult
    /\ \E o \in {acct_open_append_stream(Account, path)} :
           AcctApplied("open_append_stream", [NoPaths EXCEPT !.src = path], o)

FsGetFileInfo(how, path) ==
    /\ result = IdleResult
    /\ \E o \in {fs_get_file_info(Account, StandaloneHandler(how), path)} :
           AcctApplied("fs_get_file_info",
                       [NoPaths EXCEPT !.src = path, !.handler = how], o)

FsGetFileInfoSelector(how, base_dir, recursive, allow_not_found) ==
    /\ result = IdleResult
    /\ \E o \in {fs_get_file_info_selector(Account, StandaloneHandler(how),
                                            base_dir, recursive,
                                            allow_not_found)} :
           AcctApplied("fs_get_file_info_selector",
                       [NoPaths EXCEPT !.src = base_dir,
                                       !.recursive = recursive,
                                       !.flag = allow_not_found,
                                       !.handler = how], o)

Return ==
    /\ result # IdleResult
    /\ result' = IdleResult
    /\ UNCHANGED <<fileSystems, store, file_system_handlers, threads>>
    /\ UNCHANGED fileVars

Next ==
    \/ \E path \in InputPaths : GetFileInfo(path)
    \/ \E path \in InputPaths, recursive \in BOOLEAN, allow_not_found \in BOOLEAN :
          GetFileInfoSelector(path, recursive, allow_not_found)
    \/ \E path \in InputPaths, recursive \in BOOLEAN : CreateDir(path, recursive)
    \/ \E path \in InputPaths : DeleteDir(path)
    \/ \E path \in InputPaths, accept_root_dir \in BOOLEAN :
          DeleteDirContents(path, accept_root_dir)
    \/ \E path \in InputPaths : DeleteFile(path)
    \/ \E src \in InputPaths, dest \in InputPaths : Move(src, dest)
    \/ \E path \in InputPaths : OpenOutputStream(path)
    \/ \E path \in InputPaths, data \in FileData : WriteFile(path, data)
    \/ \E src \in InputPaths, dest \in InputPaths : CopyFile(src, dest)
    \/ \E path \in InputPaths : OpenInputStream(path)
    \/ \E path \in InputPaths : OpenInputFile(path)
    \/ \E path \in InputPaths : OpenAppendStream(path)
    \/ \E how \in StandaloneHandlers, path \in FsInputPaths :
          FsGetFileInfo(how, path)
    \/ \E how \in StandaloneHandlers, path \in FsInputPaths,
          recursive \in BOOLEAN, allow_not_found \in BOOLEAN :
          FsGetFileInfoSelector(how, path, recursive, allow_not_found)
    \/ Return

Spec == Init /\ [][Next]_vars

----------------------------------------------------------------------------
(* _split_path on its own (PathSpec): every string over a separator and two *)
(* other characters, up to MaxPathLen characters                            *)
MaxPathLen == 4     \* longest path given to _split_path

AllPaths == UNION {[1..n -> {Sep, "n", "x"}] : n \in 0..MaxPathLen}

\* fs_name, path = self._split_path(path), or the ValueError it raises
SplitPath(path) ==
    /\ result = IdleResult
    /\ \E o \in {_split_path(path)} :
           result' = [op |-> "_split_path", args |-> [NoPaths EXCEPT !.src = path],
                      err |-> o.err, val |-> <<o.fs, o.path>>, calls |-> NoCall]
    /\ UNCHANGED <<fileSystems, store, file_system_handlers, threads>>
    /\ UNCHANGED fileVars

PathNext ==
    \/ \E path \in AllPaths : SplitPath(path)
    \/ Return

PathSpec == Init /\ [][PathNext]_vars

----------------------------------------------------------------------------
(* Threads sharing one AccountHandler (RaceSpec).  A step is one operation  *)
(* on the dictionary file_system_handlers or one call of the service; the   *)
(* interpreter runs each of them without interruption.  A handler object is *)
(* the handler with the identity <<thread, number>> of its construction.    *)
RaceNames == {<<"n">>}

HandlerObject(t, fs_name) ==
    [file_system_name |-> fs_name, prefix_fs |-> PyBool(TRUE),
     id |-> <<t, threads[t].made + 1>>]

\* the dictionary with file_system_handlers[fs_name] = handler
Assigned(fs_name, handler) ==
    [k \in DOMAIN file_system_handlers \cup {fs_name} |->
        IF k = fs_name THEN handler ELSE file_system_handlers[k]]

RaceStep(t, thread) ==
    /\ threads' = [threads EXCEPT ![t] = thread]
    /\ UNCHANGED <<store, result>>
    /\ UNCHANGED fileVars

\* _fs, line 590: `if fs_name in self.file_system_handlers`, the first step
\* of any call that routes to the file system
FsTest(t, fs_name) ==
    /\ threads[t].pc = "idle"
    /\ threads[t].calls < MaxCalls
    /\ RaceStep(t, [threads[t] EXCEPT
                      !.pc = IF fs_name \in DOMAIN file_system_handlers
                             THEN "lookup" ELSE "setdefault",
                      !.fs_name = fs_name, !.calls = @ + 1])
    /\ UNCHANGED <<fileSystems, file_system_handlers>>

\* _fs, line 591: `return self.file_system_handlers[fs_name]`
FsLookup(t) ==
    /\ threads[t].pc = "lookup"
    /\ RaceStep(t, [threads[t] EXCEPT
                      !.pc = "idle",
                      !.got = @ \cup {<<threads[t].fs_name,
                                        file_system_handlers[threads[t].fs_name]>>}])
    /\ UNCHANGED <<fileSystems, file_system_handlers>>

\* _fs, lines 593-598: a new handler is constructed, and
\* `return self.file_system_handlers.setdefault(fs_name, new_fs_handler)`
FsSetdefault(t) ==
    /\ threads[t].pc = "setdefault"
    /\ LET fs_name == threads[t].fs_name
           new_fs_handler == HandlerObject(t, fs_name)
       IN /\ file_system_handlers' =
                IF fs_name \in DOMAIN file_system_handlers
                THEN file_system_handlers
                ELSE Assigned(fs_name, new_fs_handler)
          /\ RaceStep(t, [threads[t] EXCEPT
                            !.pc = "idle", !.made = @ + 1,
                            !.got = @ \cup {<<fs_name, file_system_handlers'[fs_name]>>}])
    /\ UNCHANGED fileSystems

\* create_dir(fs_name), line 656: create_file_system; ResourceExistsError is
\* swallowed and the call is over
CreateFileSystem(t, fs_name) ==
    /\ threads[t].pc = "idle"
    /\ threads[t].calls < MaxCalls
    /\ fileSystems' = fileSystems \cup {fs_name}
    /\ RaceStep(t, [threads[t] EXCEPT
                      !.pc = IF fs_name \in fileSystems THEN "idle" ELSE "assign",
                      !.fs_name = fs_name, !.calls = @ + 1])
    /\ UNCHANGED file_system_handlers

\* create_dir, lines 657-658: `self.file_system_handlers[fs_name] =
\* self.fs_handler_cls(fs_client, prefix_fs=True, ...)`
AssignHandler(t) ==
    /\ threads[t].pc = "assign"
    /\ file_system_handlers' =
          Assigned(threads[t].fs_name, HandlerObject(t, threads[t].fs_name))
    /\ RaceStep(t, [threads[t] EXCEPT !.pc = "idle", !.made = @ + 1])
    /\ UNCHANGED fileSystems

RaceNext ==
    \/ \E t \in Threads, fs_name \in RaceNames : FsTest(t, fs_name)
    \/ \E t \in Threads : FsLookup(t)
    \/ \E t \in Threads : FsSetdefault(t)
    \/ \E t \in Threads, fs_name \in RaceNames : CreateFileSystem(t, fs_name)
    \/ \E t \in Threads : AssignHandler(t)

RaceSpec == Init /\ [][RaceNext]_vars

FileSpec == FileSpecInit /\ [][FileNext]_vars

----------------------------------------------------------------------------
(* Claims about DatalakeGen2File, checked under FileSpec *)

\* The offset at which the next flush() of this object issues append_data
NextAppendOffset(file, r) == ResolveOffset(file, r)

LastCallFailed(calls, names) ==
    /\ calls # NoCall
    /\ calls[Len(calls)].call \in names
    /\ ~calls[Len(calls)].ok

\* C1 (as claimed): when append_data or flush_data fails during a flush() in
\* 'wb' or 'ab' mode, the buffer is what it was before the flush and the next
\* flush issues append_data at the offset this one used.
C1_FlushAllOrNothing ==
    [][(/\ res'.op = "flush"
        /\ f.mode \in {"wb", "ab"}
        /\ LastCallFailed(res'.calls, {"append_data", "flush_data"}))
       => (/\ f'.buffer = f.buffer
           /\ NextAppendOffset(f', remote') = NextAppendOffset(f, remote))]_vars

\* open(path, 'rb').read() on the remote file r
ReadFromStart(r) == Read(NewFile("rb"), r, -1, "none").data

\* C2: after write() calls on a 'wb' file and close(), with no remote failure,
\* the committed remote content is exactly the written data in order, and a
\* read from offset 0 returns it.
C2_RoundTrip ==
    (f.mode = "wb" /\ f.closed /\ ~failed)
    => (/\ remote.exists
        /\ remote.staged = <<>>
        /\ remote.content = written
        /\ ReadFromStart(remote) = written)

\* C2 witness: a closed 'wb' file that took more than block_size bytes
C2_Witness ==
    /\ f.mode = "wb" /\ f.closed /\ ~failed
    /\ Len(written) > BlockSize
    /\ remote.content = written

\* C3 (as claimed): on a closed file read, write, seek and flush raise the
\* closed-file error (a ValueError) and change neither the cursor nor the
\* remote file.
C3_ClosedRejectsAll ==
    [][(f.closed /\ res'.op \in {"read", "write", "seek", "flush"})
       => (/\ res'.err \in ValueErrors
           /\ f'.loc = f.loc
           /\ remote' = remote)]_vars

\* C4: close() on a closed file raises nothing, issues no remote call and
\* leaves the object and the remote file as the first close() left them.
C4_SecondCloseIsNoop ==
    [][(f.closed /\ res'.op = "close")
       => (/\ res'.err = "none"
           /\ res'.calls = NoCall
           /\ remote' = remote
           /\ f' = f)]_vars

\* C4 witness: a close() of a 'wb' file that made no remote call; the first
\* close() of a 'wb' file always issues append_data, so this is a second one
C4_Witness ==
    /\ res.op = "close" /\ res.err = "none" /\ res.calls = NoCall
    /\ f.mode = "wb" /\ f.closed
    /\ remote.content = written /\ Len(written) > 0

----------------------------------------------------------------------------
(* Claims about AccountHandler, checked under Spec *)

\* get_file_info([p])[0] reports p as an existing File / Directory
IsExistingFile(A, p) ==
    Then(acct_get_file_info(A, p), LAMBDA i :
      i.err = "none" /\ i.val.type = "File")

IsExistingDir(A, p) ==
    Then(acct_get_file_info(A, p), LAMBDA i :
      i.err = "none" /\ i.val.type = "Directory")

\* the non-recursive listing of p succeeds and has no / some entries
ListsEmpty(A, p) ==
    Then(acct_get_file_info_selector(A, p, FALSE, FALSE), LAMBDA l :
      l.err = "none" /\ l.val = <<>>)

ListsNonEmpty(A, p) ==
    Then(acct_get_file_info_selector(A, p, FALSE, FALSE), LAMBDA l :
      l.err = "none" /\ l.val # <<>>)

\* p names something inside a file system, not the root or a file system
InsideNamespace(p) ==
    Then(_split_path(p), LAMBDA sp : sp.err = "none" /\ sp.path # <<>>)

NoRenameIn(calls) ==
    \A i \in 1..Len(calls) :
        calls[i].call \notin {"rename_file", "rename_directory"}

AccountUnchanged == fileSystems' = fileSystems /\ store' = store

\* C5 (as claimed): move(fileA, emptyDir), fileA an existing File and
\* emptyDir an existing Directory without children, succeeds; afterwards
\* get_file_info(fileA) fails NotFound and get_file_info of the new path
\* succeeds.
C5_MoveFileOntoEmptyDirSucceeds ==
    [][(/\ result'.op = "move"
        /\ IsExistingFile(Account, result'.args.src)
        /\ IsExistingDir(Account, result'.args.dest)
        /\ ListsEmpty(Account, result'.args.dest))
       => (/\ result'.err = "none"
           /\ acct_get_file_info(Account', result'.args.src).err = "NotFound"
           /\ acct_get_file_info(Account', result'.args.dest).err = "none")]_vars

\* C5 (amended): move(fileA, emptyDir), fileA an existing File and emptyDir
\* an existing Directory without children inside a file system, fails with
\* Conflict (the kinds differ), issues no rename call and leaves fileA a File
\* and emptyDir an empty Directory.
C5_MoveFileOntoEmptyDirConflicts ==
    [][(/\ result'.op = "move"
        /\ IsExistingFile(Account, result'.args.src)
        /\ InsideNamespace(result'.args.dest)
        /\ IsExistingDir(Account, result'.args.dest)
        /\ ListsEmpty(Account, result'.args.dest))
       => (/\ result'.err = "Conflict"
           /\ NoRenameIn(result'.calls)
           /\ AccountUnchanged
           /\ IsExistingFile(Account', result'.args.src)
           /\ IsExistingDir(Account', result'.args.dest)
           /\ ListsEmpty(Account', result'.args.dest))]_vars

\* C5 witness: a move of a File onto an empty Directory has been refused
C5_Witness ==
    /\ result.op = "move" /\ result.err = "Conflict"
    /\ IsExistingFile(Account, result.args.src)
    /\ InsideNamespace(result.args.dest)
    /\ IsExistingDir(Account, result.args.dest)
    /\ ListsEmpty(Account, result.args.dest)

\* the kinds get_file_info reports for p and q differ (both exist)
KindsDiffer(A, p, q) ==
    \/ IsExistingFile(A, p) /\ IsExistingDir(A, q)
    \/ IsExistingDir(A, p) /\ IsExistingFile(A, q)

\* C6: a move between paths inside file systems, with an existing source,
\* fails with Conflict and issues no rename call whenever the destination is
\* a non-empty Directory or exists with a kind other than the source's; a
\* Directory source onto an existing empty Directory passes the check and
\* the directory rename is issued.
C6_MoveConflicts ==
    [][(/\ result'.op = "move"
        /\ InsideNamespace(result'.args.src)
        /\ InsideNamespace(result'.args.dest))
       => (/\ ((/\ IsExistingFile(Account, result'.args.src)
                   \/ IsExistingDir(Account, result'.args.src)
                /\ \/ /\ IsExistingDir(Account, result'.args.dest)
                      /\ ListsNonEmpty(Account, result'.args.dest)
                   \/ KindsDiffer(Account, result'.args.src, result'.args.dest))
               => (/\ result'.err = "Conflict"
                   /\ NoRenameIn(result'.calls)
                   /\ AccountUnchanged))
           /\ ((/\ IsExistingDir(Account, result'.args.src)
                /\ IsExistingDir(Account, result'.args.dest)
                /\ ListsEmpty(Account, result'.args.dest))
               => (/\ result'.err # "Conflict"
                   /\ result'.calls # NoCall
                   /\ result'.calls[Len(result'.calls)].call
                          = "rename_directory")))]_vars

\* C6 witness: a move of a Directory onto a non-empty Directory was refused
C6_Witness ==
    /\ result.op = "move" /\ result.err = "Conflict"
    /\ InsideNamespace(result.args.src)
    /\ InsideNamespace(result.args.dest)
    /\ IsExistingDir(Account, result.args.src)
    /\ IsExistingDir(Account, result.args.dest)
    /\ ListsNonEmpty(Account, result.args.dest)

\* create_dir(p, recursive=False) where p is "<fs>/<missing>/<child>": the
\* file system exists, nothing is stored at <missing>
ParentMissing(A, p) ==
    Then(_split_path(p), LAMBDA sp :
      /\ sp.err = "none"
      /\ sp.fs \in A.fss
      /\ Depth(sp.path) = 2
      /\ ~Exists(A, sp.fs, dirname(sp.path)))

\* C7 (as claimed): create_dir("ns/missing/child", recursive=False), ns an
\* existing file system without a directory "missing", fails with NotFound
\* and creates no directory.
C7_CreateDirMissingParentNotFound ==
    [][(/\ result'.op = "create_dir"
        /\ ~result'.args.recursive
        /\ ParentMissing(Account, result'.args.src))
       => (result'.err = "NotFound" /\ AccountUnchanged)]_vars

\* C7 (amended): create_dir("ns/missing/child", recursive=False), ns an
\* existing file system without a directory "missing", fails with
\* NotADirectory, issues no create_directory call and creates no directory.
C7_CreateDirMissingParentNotADirectory ==
    [][(/\ result'.op = "create_dir"
        /\ ~result'.args.recursive
        /\ ParentMissing(Account, result'.args.src))
       => (/\ result'.err = "NotADirectory"
           /\ \A i \in 1..Len(result'.calls) :
                 result'.calls[i].call # "create_directory"
           /\ AccountUnchanged)]_vars

\* C7 witness: such a create_dir has been refused
C7_Witness ==
    /\ result.op = "create_dir" /\ ~result.args.recursive
    /\ result.err = "NotADirectory"
    /\ ParentMissing(Account, result.args.src)

\* the entries a recursive listing of the root must show after
\* create_dir(p, recursive=True) on an empty account: the file system, every
\* intermediate directory and the directory, as <<path, kind>>
ExpectedTree(p) ==
    Then(_split_path(p), LAMBDA sp :
      {<<sp.fs, "Directory">>} \cup
      {<<sp.fs \o <<Sep>> \o d, "Directory">> :
          d \in Ancestors(sp.path) \cup {sp.path}})

\* C8: on an empty account, create_dir("ns/x/y", recursive=True) followed by
\* a recursive listing of the root "" yields exactly "ns", "ns/x" and
\* "ns/x/y" (for any path: the file system, every intermediate directory and
\* the directory), each a Directory, each prefixed with the file system
\* name, none listed twice.
C8_CreateDirNestedThenListRoot ==
    [][(/\ result'.op = "create_dir"
        /\ result'.args.recursive
        /\ fileSystems = {}
        /\ InsideNamespace(result'.args.src))
       => (/\ result'.err = "none"
           /\ Then(acct_get_file_info_selector(Account', <<>>, TRUE, FALSE),
                   LAMBDA l :
                     /\ l.err = "none"
                     /\ {<<l.val[i].path, l.val[i].type>> : i \in 1..Len(l.val)}
                           = ExpectedTree(result'.args.src)
                     /\ Len(l.val) = Cardinality(ExpectedTree(result'.args.src))))]_vars

\* C8 witness: create_dir("n/x/y", recursive=True) has run on an account
\* that now holds exactly n, n/x and n/x/y
C8_Witness ==
    /\ result.op = "create_dir" /\ result.args.recursive
    /\ result.err = "none"
    /\ result.args.src = <<"n", "/", "x", "/", "y">>
    /\ fileSystems = {<<"n">>}
    /\ DOMAIN store = {<<<<"n">>, <<"x">>>>, <<<<"n">>, <<"x", "/", "y">>>>}

\* C9: in every reachable state get_file_info([""]) returns an entry with
\* path "" and kind Directory and issues no remote call; a get_file_info("")
\* that has run returned that.
C9_RootAlwaysDirectory ==
    /\ Then(acct_get_file_info(Account, <<>>), LAMBDA i :
         /\ i.err = "none"
         /\ i.val.path = <<>>
         /\ i.val.type = "Directory"
         /\ i.calls = NoCall)
    /\ (result.op = "get_file_info" /\ normalize_path(result.args.src) = <<>>)
       => (/\ result.err = "none"
           /\ result.val.path = <<>>
           /\ result.val.type = "Directory"
           /\ result.calls = NoCall)

\* C9 witness: get_file_info("") has run on an account whose file systems
\* were all deleted
C9_Witness ==
    /\ result.op = "get_file_info" /\ result.args.src = <<>>
    /\ fileSystems = {}
    /\ file_system_handlers # EmptyReg

\* C10: delete_dir_contents("") without accept_root_dir fails with
\* InvalidOperation, issues no call and deletes no file system; with it,
\* every file system is deleted and a listing of the root is empty.
C10_DeleteRootContents ==
    [][(/\ result'.op = "delete_dir_contents"
        /\ normalize_path(result'.args.src) = <<>>)
       => IF result'.args.flag
          THEN /\ result'.err = "none"
               /\ fileSystems' = {}
               /\ store' = EmptyStore
               /\ ListsEmpty(Account', <<>>)
               /\ \A fs \in fileSystems : \E i \in 1..Len(result'.calls) :
                     /\ result'.calls[i].call = "delete_file_system"
                     /\ result'.calls[i].fs = fs
          ELSE /\ result'.err = "InvalidOperation"
               /\ result'.calls = NoCall
               /\ AccountUnchanged]_vars

\* C10 witness: delete_dir_contents("") with accept_root_dir has deleted two
\* file systems
C10_Witness ==
    /\ result.op = "delete_dir_contents" /\ result.args.flag
    /\ normalize_path(result.args.src) = <<>>
    /\ result.err = "none"
    /\ fileSystems = {}
    /\ Cardinality({i \in 1..Len(result.calls) :
                       result.calls[i].call = "delete_file_system"}) = 2

\* the base directory of a selector does not exist: for a FilesystemHandler on
\* file system fs, nothing is stored at the normalized path; for the router,
\* the file system is missing or nothing is stored at the remainder
FsBaseDirMissing(A, fs, base_dir) ==
    Then(normalize_path(base_dir), LAMBDA q : q # <<>> /\ ~Exists(A, fs, q))

BaseDirMissing(A, base_dir) ==
    Then(_split_path(base_dir), LAMBDA sp :
      /\ sp.err = "none"
      /\ sp.fs # <<>>
      /\ IF sp.path = <<>> THEN sp.fs \notin A.fss
         ELSE ~Exists(A, sp.fs, sp.path))

\* C11 (as claimed): get_file_info_selector with allow_not_found=True and a
\* base directory that does not exist returns an empty list, on a
\* FilesystemHandler and through the router.
C11_AllowNotFoundGivesEmpty ==
    [][(/\ result'.args.flag
        /\ \/ /\ result'.op = "fs_get_file_info_selector"
              /\ FsBaseDirMissing(Account, StandaloneFs, result'.args.src)
           \/ /\ result'.op = "get_file_info_selector"
              /\ BaseDirMissing(Account, result'.args.src))
       => (result'.err = "none" /\ result'.val = <<>>)]_vars

\* the paths a call reported: of the one entry of get_file_info, of every
\* entry of a listing
ReportedPaths(r) ==
    IF r.op \in {"fs_get_file_info", "get_file_info"} THEN {r.val.path}
    ELSE {r.val[i].path : i \in 1..Len(r.val)}

\* p is the path q inside file system fs, written with the file system name
IsPrefixed(p, fs, q) == p = IF q = <<>> THEN fs ELSE fs \o <<Sep>> \o q

\* C12 (as claimed): a handler built by FilesystemHandler.from_account_name
\* has a false prefix_fs and reports paths inside its file system without the
\* file system name; the handlers the router creates report them prefixed.
C12_FromAccountNameDoesNotPrefix ==
    [][/\ (/\ result'.args.handler = "from_account_name"
           /\ result'.op \in {"fs_get_file_info", "fs_get_file_info_selector"}
           /\ result'.err = "none")
          => (/\ ~Truthy(StandaloneHandler("from_account_name").prefix_fs)
              /\ \A p \in ReportedPaths(result') :
                    p = <<>> \/ p \in PathsOf(Account, StandaloneFs))
       /\ (/\ result'.op \in {"get_file_info", "get_file_info_selector"}
           /\ InsideNamespace(result'.args.src)
           /\ result'.err = "none")
          => \A p \in ReportedPaths(result') :
                \E q \in PathsOf(Account, _split_path(result'.args.src).fs) :
                   IsPrefixed(p, _split_path(result'.args.src).fs, q)]_vars

\* What delete_file(p) must do by the claim, from what is stored: the error,
\* with absent_deep the error for an absent file whose parent directory is
\* missing too
DeleteFileError(A, p, absent_deep) ==
    Then(_split_path(p), LAMBDA sp :
      IF sp.fs = <<>> THEN "NotFound"
      ELSE IF sp.path = <<>> THEN "IsADirectory"
      ELSE IF sp.fs \notin A.fss THEN "NotFound"
      ELSE IF IsFileAt(A, sp.fs, sp.path) THEN "none"
      ELSE IF Exists(A, sp.fs, sp.path) THEN "IsADirectory"
      ELSE IF IsDirAt(A, sp.fs, dirname(sp.path)) THEN "NotFound"
      ELSE absent_deep)

\* the store without the file p names, the file systems as they were
DeletedOnly(p) ==
    Then(_split_path(p), LAMBDA sp :
      /\ fileSystems' = fileSystems
      /\ store' = [k \in DOMAIN store \ {<<sp.fs, sp.path>>} |-> store[k]])

\* C13 (as claimed): delete_file(path) deletes the target if and only if it
\* is an existing File; otherwise it fails and leaves the store unchanged,
\* with NotFound for the root, for a path in a missing file system and for
\* every absent file in an existing file system, IsADirectory for a bare file
\* system name and for a Directory.
C13_DeleteFileNotFoundWhenAbsent ==
    [][(result'.op = "delete_file")
       => (/\ result'.err = DeleteFileError(Account, result'.args.src, "NotFound")
           /\ IF result'.err = "none" THEN DeletedOnly(result'.args.src)
              ELSE AccountUnchanged)]_vars

\* C13 (amended): as claimed, except that an absent file whose parent
\* directory is missing too (or is a file) fails with the 404 transport error
\* of the parent's listing, not with NotFound; NotFound is raised for an
\* absent file only when its parent directory exists.
C13_DeleteFile ==
    [][(result'.op = "delete_file")
       => (/\ result'.err = DeleteFileError(Account, result'.args.src, "Storage404")
           /\ IF result'.err = "none" THEN DeletedOnly(result'.args.src)
              ELSE AccountUnchanged)]_vars

\* C13 witness: delete_file of a path below a missing directory of an
\* existing file system has failed with the transport error
C13_Witness ==
    /\ result.op = "delete_file" /\ result.err = "Storage404"
    /\ Then(_split_path(result.args.src), LAMBDA sp :
         /\ sp.fs \in fileSystems
         /\ ~Exists(Account, sp.fs, sp.path)
         /\ ~IsDirAt(Account, sp.fs, dirname(sp.path)))

OpenOps ==
    {"open_input_stream", "open_input_file", "open_output_stream",
     "open_append_stream"}

\* C14: open_input_stream, open_input_file, open_output_stream and
\* open_append_stream on a path with an empty remainder (a root-level name)
\* fail with InvalidOperation before a handler is created and before any
\* remote call; nothing is ever stored at the account root.
C14_OpenAtRootRejected ==
    [][/\ (/\ result'.op \in OpenOps
           /\ _split_path(result'.args.src).path = <<>>)
          => (/\ result'.err = "InvalidOperation"
              /\ result'.calls = NoCall
              /\ file_system_handlers' = file_system_handlers
              /\ AccountUnchanged)
       /\ \A k \in DOMAIN store' : k[1] # <<>> /\ k[2] # <<>>]_vars

\* C14 witness: open_append_stream("m") was refused and no handler for m
\* exists, on an account that holds file system n
C14_Witness ==
    /\ result.op = "open_append_stream" /\ result.err = "InvalidOperation"
    /\ result.args.src = <<"m">>
    /\ <<"n">> \in fileSystems
    /\ <<"m">> \notin DOMAIN file_system_handlers

\* C15: move fails with InvalidOperation, without resolving source or
\* destination (no remote call, no handler created) and without a rename
\* call, when the source or the destination is a bare file system name.
C15_MoveBareNamespaceRejected ==
    [][(/\ result'.op = "move"
        /\ \/ _split_path(result'.args.src).path = <<>>
           \/ _split_path(result'.args.dest).path = <<>>)
       => (/\ result'.err = "InvalidOperation"
           /\ result'.calls = NoCall
           /\ file_system_handlers' = file_system_handlers
           /\ AccountUnchanged)]_vars

\* C15 witness: move("n/x", "m") was refused while n/x and m exist
C15_Witness ==
    /\ result.op = "move" /\ result.err = "InvalidOperation"
    /\ result.args.src = <<"n", "/", "x">>
    /\ result.args.dest = <<"m">>
    /\ Exists(Account, <<"n">>, <<"x">>)
    /\ <<"m">> \in fileSystems

\* C16: create_dir(path, recursive) with recursive true or an empty
\* remainder creates the file system if absent and takes an existing one as no
\* error (a bare name succeeds; a call that succeeded, repeated, succeeds and
\* changes nothing); with recursive false, a non-empty remainder and a
\* missing file system it fails with NotFound and creates nothing.
C16_CreateDirNamespace ==
    [][(/\ result'.op = "create_dir"
        /\ _split_path(result'.args.src).fs # <<>>)
       => Then(_split_path(result'.args.src), LAMBDA sp :
            /\ (result'.args.recursive \/ sp.path = <<>>)
               => (/\ sp.fs \in fileSystems'
                   /\ fileSystems' = fileSystems \cup {sp.fs}
                   /\ sp.path = <<>> => result'.err = "none"
                   /\ (sp.path = <<>> /\ sp.fs \in fileSystems)
                      => AccountUnchanged
                   /\ result'.err = "none"
                      => Then(acct_create_dir(Account', result'.args.src,
                                              result'.args.recursive),
                              LAMBDA again :
                                /\ again.err = "none"
                                /\ again.A.fss = fileSystems'
                                /\ again.A.st = store'))
            /\ (/\ ~result'.args.recursive
                /\ sp.path # <<>>
                /\ sp.fs \notin fileSystems)
               => (/\ result'.err = "NotFound"
                   /\ AccountUnchanged))]_vars

\* C16 witness: create_dir("n/x", recursive=False) failed with NotFound on
\* an account that holds file system m only
C16_Witness ==
    /\ result.op = "create_dir" /\ ~result.args.recursive
    /\ result.err = "NotFound"
    /\ result.args.src = <<"n", "/", "x">>
    /\ fileSystems = {<<"m">>}

\* what open_input_stream(p).read() returns
ContentRead(A, p) ==
    Then(_split_path(p), LAMBDA sp :
      Read(NewFile("rb"), RemoteOf(A, sp.fs, sp.path), -1, "none").data)

\* p and q name different places of the account
DifferentPlaces(p, q) ==
    Then(<<_split_path(p), _split_path(q)>>, LAMBDA sd :
      sd[1].fs # sd[2].fs \/ sd[1].path # sd[2].path)

NoOuterSep(p) == p = <<>> \/ (Head(p) # Sep /\ p[Len(p)] # Sep)

\* C18: for every path _split_path returns one pair (file system, remainder):
\* the file system has no separator, the remainder neither begins nor ends
\* with one, the two joined by one separator (the file system alone when the
\* remainder is empty) are normalize_path(path), and normalize_path(path)
\* neither begins nor ends with a separator.
C18_SplitPath ==
    result.op = "_split_path"
    => Then(normalize_path(result.args.src), LAMBDA n :
         LET fs == result.val[1]
             rest == result.val[2]
         IN /\ result.err = "none"
            /\ ~HasSep(fs)
            /\ NoOuterSep(rest)
            /\ (IF rest = <<>> THEN fs ELSE fs \o <<Sep>> \o rest) = n
            /\ NoOuterSep(n))

\* the operations that verify a directory first, and the path they verify:
\* the path itself, or its parent for a non-recursive create_dir
Verifies(r) ==
    Then(_split_path(r.args.src), LAMBDA sp :
      /\ sp.err = "none"
      /\ sp.path # <<>>
      /\ \/ r.op \in {"delete_dir", "delete_dir_contents"}
         \/ r.op = "get_file_info_selector" /\ ~r.args.flag
         \/ r.op = "create_dir" /\ ~r.args.recursive /\ sp.fs \in fileSystems)

VerifiedPath(r) ==
    Then(_split_path(r.args.src), LAMBDA sp :
      IF r.op = "create_dir" THEN dirname(sp.path) ELSE sp.path)

NotVerificationError(err) == err \notin {"NotADirectory", "NotFound"}

\* C19: verifying a non-root path fails with NotADirectory when the listing
\* of its parent succeeds and has no Directory entry for it (absent, or a
\* File), and with NotFound only when the listing of the parent answers 404;
\* the root always passes.  Checked on the operations that verify:
\* get_file_info_selector, delete_dir, delete_dir_contents and non-recursive
\* create_dir; a failed verification changes nothing.
C19_VerifyIsDir ==
    [][Verifies(result')
       => Then(<<_split_path(result'.args.src).fs, VerifiedPath(result')>>,
               LAMBDA v :
            LET fs == v[1]
                path == v[2]
                listed == get_paths_status(Account, fs, dirname(path)) = "none"
                is_dir == Exists(Account, fs, path)
                            /\ store[<<fs, path>>].is_directory
            IN /\ path = <<>> => NotVerificationError(result'.err)
               /\ (path # <<>> /\ ~listed)
                  => (result'.err = "NotFound" /\ AccountUnchanged)
               /\ (path # <<>> /\ listed /\ ~is_dir)
                  => (result'.err = "NotADirectory" /\ AccountUnchanged)
               /\ (path # <<>> /\ listed /\ is_dir)
                  => NotVerificationError(result'.err))]_vars

\* C19 witness: delete_dir("n/x/y") raised NotADirectoryError where n/x/y
\* is a File
C19_Witness ==
    /\ result.op = "delete_dir" /\ result.err = "NotADirectory"
    /\ result.args.src = <<"n", "/", "x", "/", "y">>
    /\ IsFileAt(Account, <<"n">>, <<"x", "/", "y">>)

\* the positions of the rename calls among the remote calls of an operation
RenameCalls(calls) ==
    {i \in 1..Len(calls) : calls[i].call \in {"rename_file", "rename_directory"}}

\* C20: every remote call of a move before its rename is a read (a listing);
\* the rename, when there is one, is the last call and the only one; a move
\* that ends without a rename has failed and leaves file systems and stored
\* entries unchanged; a move that succeeds has issued exactly one rename.
C20_MoveFrame ==
    [][result'.op = "move"
       => LET calls == result'.calls
          IN /\ \A i \in 1..Len(calls) :
                  \/ calls[i].call \in {"get_paths", "list_file_systems"}
                  \/ i \in RenameCalls(calls)
             /\ RenameCalls(calls) \in {{}, {Len(calls)}}
             /\ RenameCalls(calls) = {}
                => (result'.err # "none" /\ AccountUnchanged)
             /\ result'.err = "none"
                => Cardinality(RenameCalls(calls)) = 1]_vars

\* C20 witness: a move of a Directory returned after reading the source,
\* the destination and the destination's listing, and then renaming once
C20_Witness ==
    /\ result.op = "move" /\ result.err = "none"
    /\ Len(result.calls) >= 4
    /\ result.calls[Len(result.calls)].call = "rename_directory"
    /\ Cardinality(RenameCalls(result.calls)) = 1

\* the positions of the append_data calls among the remote calls of one call
Appends(calls) == {i \in 1..Len(calls) : calls[i].call = "append_data"}

\* C21: on a file in 'wb' or 'ab' mode with no failed remote call so far,
\* every append_data of a write, flush or close is issued at the committed
\* length of the remote file (the position of the previous commit, or the
\* resolved initial offset), one per flush, and an accepted append is
\* followed at once by flush_data at that offset plus the appended length;
\* while no call has failed self.offset, once set, is the committed length.
C21_AppendsContiguous ==
    [][(/\ res'.op \in {"write", "flush", "close"}
        /\ f.mode \in {"wb", "ab"}
        /\ ~failed)
       => LET calls == res'.calls
          IN /\ Cardinality(Appends(calls)) <= 1
             /\ \A i \in Appends(calls) :
                  /\ calls[i].offset = Len(remote.content)
                  /\ f.offset # None => calls[i].offset = f.offset
                  /\ calls[i].ok
                     => (/\ i < Len(calls)
                         /\ calls[i + 1].call = "flush_data"
                         /\ calls[i + 1].offset
                              = calls[i].offset + Len(calls[i].data))
             /\ (~failed' /\ f'.offset # None)
                => (/\ f'.offset = Len(remote'.content)
                    /\ remote'.staged = <<>>)]_vars

\* C21 witness: a flush of an 'ab' file that is not its first one (no size
\* was read) appended data after what the earlier flushes committed
C21_Witness ==
    /\ res.op \in {"write", "flush"} /\ f.mode = "ab" /\ ~failed
    /\ Len(res.calls) = 2
    /\ res.calls[1].call = "append_data"
    /\ res.calls[1].data # <<>>
    /\ res.calls[1].offset > 1
    /\ f.offset = Len(remote.content)

\* the positions of the get_file_properties calls among the remote calls
PropertiesCalls(calls) ==
    {i \in 1..Len(calls) : calls[i].call = "get_file_properties"}

\* C22: self.offset is None from construction until the first flush and is
\* resolved at most once: only a flush (of write, flush or close) sets it; the
\* flush that resolves it appends at 0 in 'wb' mode without reading the size,
\* and at the size of the remote file in 'ab' mode after exactly one
\* get_file_properties; once it is set no flush reads the size again and the
\* offset only advances by what is appended.
C22_OffsetResolvedOnce ==
    [][/\ res'.op = "open" => f'.offset = None
       /\ (res'.op # "open" /\ f'.offset # f.offset)
          => (/\ res'.op \in {"write", "flush", "close"}
              /\ Appends(res'.calls) # {})
       /\ (/\ res'.op \in {"write", "flush", "close"}
           /\ f.mode \in {"wb", "ab"})
          => LET calls == res'.calls
             IN /\ f.offset # None
                   => (/\ PropertiesCalls(calls) = {}
                       /\ f'.offset \in {f.offset} \cup
                            {f.offset + Len(calls[i].data) : i \in Appends(calls)})
                /\ (f.offset = None /\ f'.offset # None)
                   => (/\ f.mode = "wb"
                          => (/\ PropertiesCalls(calls) = {}
                              /\ \A i \in Appends(calls) : calls[i].offset = 0)
                       /\ f.mode = "ab"
                          => (/\ PropertiesCalls(calls) = {1}
                              /\ calls[1].ok
                              /\ \A i \in Appends(calls) :
                                   calls[i].offset = Len(remote.content)))]_vars

\* C22 witness: the first flush of an 'ab' file on a remote file of one byte
\* read the size once and appended at offset 1
C22_Witness ==
    /\ res.op \in {"write", "flush", "close"} /\ f.mode = "ab"
    /\ Len(res.calls) = 3
    /\ res.calls[1].call = "get_file_properties" /\ res.calls[1].ok
    /\ res.calls[2].call = "append_data" /\ res.calls[2].offset = 1
    /\ f.offset # None /\ ~failed

C24_WriteKeepsBufferBelowBlock ==
    [][res'.op = "write"
       => LET calls == res'.calls
              data == res'.args.data
              writable == f.mode \in {"wb", "ab"} /\ ~f.closed
          IN /\ res'.err = "none" => Len(f'.buffer) < f'.block_size
             /\ (writable /\ Len(f.buffer) + Len(data) >= f.block_size)
                => (/\ Cardinality(Appends(calls)) <= 1
                    /\ \A i \in Appends(calls) : calls[i].data = f.buffer \o data
                    /\ res'.err = "none"
                       => (Appends(calls) # {} /\ f'.buffer = <<>>))
             /\ (writable /\ Len(f.buffer) + Len(data) < f.block_size)
                => (/\ res'.err = "none" /\ calls = NoCall
                    /\ f'.buffer = f.buffer \o data)
             /\ ~writable
                => (/\ res'.err \in ValueErrors /\ calls = NoCall
                    /\ f'.buffer = f.buffer)]_vars

\* C24 witness: a write() returned after flushing more than block_size bytes
\* in one append_data: the bytes buffered before it and its own
C24_Witness ==
    /\ res.op = "write" /\ res.err = "none"
    /\ f.buffer = <<>>
    /\ \E i \in Appends(res.calls) :
          /\ Len(res.calls[i].data) > BlockSize
          /\ Len(res.calls[i].data) > Len(res.args.data)

\* the file systems an operation accesses through _fs or creates: those its
\* paths name, and every listed one for a recursive listing of the root
Accessed(r) ==
    {_split_path(r.args.src).fs, _split_path(r.args.dest).fs}
    \cup (IF /\ r.op = "get_file_info_selector" /\ r.args.recursive
             /\ _split_path(r.args.src).fs = <<>>
          THEN fileSystems ELSE {})

\* C25: no step removes a name from file_system_handlers, also not delete_dir
\* of the file system or delete_dir_contents of the root; a name enters only
\* in an operation that accesses or creates that file system.
C25_RegistryNeverEvicted ==
    [][/\ DOMAIN file_system_handlers \subseteq DOMAIN file_system_handlers'
       /\ \A k \in DOMAIN file_system_handlers' \ DOMAIN file_system_handlers :
            /\ result'.op # "idle"
            /\ result'.args.handler = "router"
            /\ k \in Accessed(result')]_vars

\* C25 witness: delete_dir("n") deleted file system n and the registry still
\* holds the handler for n
C25_Witness ==
    /\ result.op = "delete_dir" /\ result.err = "none"
    /\ result.args.src = <<"n">>
    /\ <<"n">> \notin fileSystems
    /\ <<"n">> \in DOMAIN file_system_handlers

\* C26: every path handed to a remote call (the path listed, created, deleted
\* or opened, and the new name given to a rename) neither begins nor ends
\* with a separator, whatever separators the caller's path had at its ends.
C26_RemotePathsNormalized ==
    \A i \in 1..Len(result.calls) :
        /\ NoOuterSep(result.calls[i].path)
        /\ NoOuterSep(result.calls[i].dest)

\* C27: a read() on an 'rb' file that returns k bytes advances the cursor by
\* k (tell() afterwards is the previous cursor plus k), so that consecutive
\* reads return consecutive ranges; a read of length 0 returns nothing and
\* leaves the cursor.
C27_ReadAdvancesCursor ==
    [][(res'.op = "read" /\ f.mode = "rb" /\ res'.err = "none")
       => (/\ f'.loc = f.loc + Len(res'.data)
           /\ Tell(f', remote').ret = f.loc + Len(res'.data)
           /\ res'.args.n = 0 => (res'.data = <<>> /\ f'.loc = f.loc))]_vars

\* C28: get_file_info of a bare file system name returns a Directory entry
\* only while the file system exists; for one that never existed or was
\* deleted it raises FileNotFoundError, as the listing of the root, which
\* does not have it, suggests.
C28_NamespaceInfoOnlyWhileExists ==
    (/\ result.op = "get_file_info"
     /\ _split_path(result.args.src).err = "none"
     /\ _split_path(result.args.src).fs # <<>>
     /\ _split_path(result.args.src).path = <<>>)
    => Then(_split_path(result.args.src).fs, LAMBDA fs :
         /\ fs \in fileSystems
            => (result.err = "none" /\ result.val.type = "Directory")
         /\ fs \notin fileSystems => result.err = "NotFound"
         /\ (result.err = "none")
            <=> (\E i \in 1..Len(acct_get_file_info_selector(
                                   Account, <<>>, FALSE, FALSE).val) :
                   acct_get_file_info_selector(
                       Account, <<>>, FALSE, FALSE).val[i].path = fs))

\* the destination of a copy is looked up without a transport error and is
\* not a Directory: it is a File or nothing
CopyDestination(A, p) ==
    Then(acct_get_file_info(A, p), LAMBDA i :
      \/ i.err = "NotFound"
      \/ i.err = "none" /\ i.val.type # "Directory")

\* C29: copy_file(src, dest) with src an existing File and dest not a
\* Directory ends with dest holding the content src had before the call and
\* src holding it still - also when dest exists already and when dest is the
\* same file as src.
C29_CopyFile ==
    [][(/\ result'.op = "copy_file"
        /\ IsExistingFile(Account, result'.args.src)
        /\ CopyDestination(Account, result'.args.dest))
       => (/\ result'.err = "none"
           /\ ContentRead(Account', result'.args.dest)
                = ContentRead(Account, result'.args.src)
           /\ ContentRead(Account', result'.args.src)
                = ContentRead(Account, result'.args.src))]_vars

\* C30: all the handlers that _fs returned for one file system name, to any
\* thread and at any time, are one and the same object - under every
\* interleaving of first accesses with each other and with create_dir of
\* that file system.
C30_SingleHandlerInstance ==
    \A t1 \in Threads, t2 \in Threads :
      \A a \in threads[t1].got, b \in threads[t2].got :
        a[1] = b[1] => a[2] = b[2]

====
